---- MODULE Spec2Model ----
(***************************************************************************)
(* Model of the wearable app.                                              *)
(* The backend client (src/src/services/backendApi.ts, BackendAPIService): *)
(*   - the timed HTTP request wrapper and the calls built on it,           *)
(*   - the stream poller returned by startPolling,                         *)
(*   - the WebSocket client with its reconnect policy.                     *)
(* The application around it:                                              *)
(*   - LiveDataScreen and its polling effect (src/unnamed/part_003),       *)
(*   - the session store (src/src/store/index.ts),                         *)
(*   - NotificationService (src/src/services/notifications.ts),            *)
(*   - OpenAIService (src/src/services/openai.ts),                         *)
(*   - AuthService.signUp (src/src/services/auth.ts).                      *)
(* Time is in milliseconds.  JavaScript runs one handler at a time, so     *)
(* every action below is one run-to-completion step of the event loop.     *)
(***************************************************************************)
EXTENDS Integers, Sequences, FiniteSets, Bags, TLC

\* ------------------------------------------------------------------ bounds
\* The clock stops here: no event later than MaxTime is dispatched.
MaxTime == 12000
\* At most this many HTTP requests are issued in one behaviour.
MaxFetches == 6
\* At most this many direct API calls are made in one behaviour.
MaxCalls == 2
\* At most this many WebSockets are constructed in one behaviour.
MaxSockets == 7
\* At most this many connectWebSocket calls are made by the application.
MaxUserConnects == 2
\* At most this many pollers are started by LiveDataScreen in one behaviour.
MaxPollers == 3
\* At most this many checkBackendHealth calls are made by LiveDataScreen.
MaxHealthChecks == 2
\* At most this many startSession calls are made in one behaviour.
MaxStarts == 2
\* At most this many messages and sensor events are added in one behaviour.
MaxItems == 2
\* At most this many setAuth, setConnectedDevice, updateSettings and
\* setSimulatorEnabled calls are made in one behaviour.
MaxSets == 1
\* At most this many notifications are added in one behaviour.
MaxAdds == 3
\* At most this many markAsRead, markAllAsRead and clearAllNotifications
\* calls are made in one behaviour.
MaxEdits == 2
\* At most this many saves of the notifications are in progress at a time.
MaxSaves == 2
\* At most this many subscribeToNotifications calls are made in one
\* behaviour.
MaxSubscribes == 2
\* At most this many createChatCompletion calls are made in one behaviour.
MaxChats == 2
\* At most this many chunks are read from one response stream.
MaxReads == 2
\* At most this many signUp calls are made in one behaviour.
MaxSignUps == 3

\* ------------------------------------------------------- program constants
\* BACKEND_CONFIG.TIMEOUT
TIMEOUT == 10000

\* private maxReconnectAttempts = 5
maxReconnectAttempts == 5
\* private reconnectDelay = 1000
InitialReconnectDelay == 1000
\* the ceiling in Math.min(this.reconnectDelay * 2, 30000)
MaxReconnectDelay == 30000
\* `if (this.notifications.length > 50)` and slice(0, 50)
NotificationCap == 50

\* ---------------------------------------------------- environment's inputs
\* "The server never answers" (the request ends only by its timeout).
Never == 0 - 1
\* Time from issuing a request to the arrival of its response or failure.
Latencies == {0, 500, 1500, Never}
\* The same for the direct calls: an answer in time, or none.
CallLatencies == {500, Never}
\* The interval argument of startPolling (its default is 1000).
Intervals == {0, 500, 1000}
\* HTTP status codes the server may answer with.
Statuses == {200, 299, 404, 500}
\* The methods of the service that issue one HTTP request.
Apis == {"health", "connect", "stream", "predict", "createSession",
         "getSession", "logs", "layers"}

VARIABLES
    now,          \* the clock, ms
    reqs,         \* outstanding HTTP requests (fetchWithTimeout .. json())
    httpTimers,   \* pending timeout timers of fetchWithTimeout: [id, at]
    issued,       \* number of HTTP requests issued so far
    lastCall,     \* how the last direct API call settled
    lastFetch,    \* how the last fetchWithTimeout call ended
    \* --- one poller made by startPolling (its closure variables)
    started,      \* startPolling has been called
    interval,     \* its interval argument
    hasOnError,   \* an onError callback was supplied
    isPolling,    \* `let isPolling`
    pollTimers,   \* pending setTimeout(poll, interval) timers: due times
    dataCalls,    \* invocations of onData
    errorCalls,   \* invocations of onError
    pollDied,     \* a poll() activation ended by an exception
    \* --- history of the poller, for the timing properties
    pollIssued,   \* fetches issued by the poller
    lastIssueAt,  \* when the poller issued its last fetch
    issueBase,    \* completion time of the fetch before that one (-1: none)
    lastDoneAt,   \* when the poller's last fetch settled (-1: none yet)
    lats,         \* latencies of the poller's fetches so far
    stopAt,       \* pollIssued when stop was first called (-1: not called)
    afterStop,    \* invocations of <<onData, onError>> made after stop
    \* --- the WebSocket client
    wsUrlOk,            \* `new WebSocket(url)` does not throw
    hasWsOnError,       \* connectWebSocket was given an onError callback
    hasOnClose,         \* connectWebSocket was given an onClose callback
    ws,                 \* this.ws: 0 is null, else the id of a socket
    socks,              \* the sockets that are not CLOSED yet
    created,            \* number of sockets constructed so far
    reconnectAttempts,  \* this.reconnectAttempts
    reconnectDelay,     \* this.reconnectDelay
    wsTimers,           \* pending reconnect timers: a bag of delays
    invoked,            \* the callbacks the last handler run invoked
    \* --- history of the WebSocket client
    userConnects,       \* connectWebSocket calls made by the application
    waits,              \* delays of the reconnects scheduled since the last
                        \* open event
    disconnected,       \* disconnectWebSocket has closed the client and the
                        \* application has not called connectWebSocket since
    \* --- LiveDataScreen (a React component)
    mounted,            \* "no": not rendered yet, "yes", "gone": unmounted
    autoRefresh,        \* useState(true)
    isBackendConnected, \* useState(false)
    isLoading,          \* useState(true)
    isRefreshing,       \* useState(false): a pull-to-refresh is in progress
    error,              \* useState(null): an error message is set
    pollingStopFn,      \* the ref: 0 is null, else the poller whose stop
                        \* handle it holds
    screenPollers,      \* the isPolling flag of every poller the screen made
    healthChecks,       \* checkBackendHealth activations: the await of each
    \* --- the store (useAppStore) and the storage under '@app_state'
    currentSession,     \* <<>> is null, else <<the session>>
    sessions,           \* the history
    clock,              \* Date.now()
    starts,             \* startSession calls so far
    itemsAdded,         \* messages and sensor events added so far
    writes,             \* AsyncStorage.setItem calls in progress, oldest first
    stored,             \* the item in storage: <<>> is none, else <<text>>
    loading,            \* a loadPersistedState is awaiting getItem
    auth,               \* the AuthState
    settings,           \* the Settings
    simulatorEnabled,   \* the simulator switch
    connectedDevice,    \* <<>> is null, else <<the device>>
    sets,               \* calls of the four setters so far
    \* --- NotificationService and the storage under '@notifications'
    notifications,      \* the in-memory list, newest first
    nextId,             \* the next value of Date.now(): one per notification
    added,              \* notifications added so far
    edits,              \* markAsRead, markAllAsRead, clearAll calls so far
    saves,              \* AsyncStorage.setItem calls in progress, oldest first
    storedNotifications,\* the item in storage: <<>> is none, else <<text>>
    initialized,        \* initialize() has been called
    loadingNotifications, \* loadStoredNotifications is awaiting getItem
    listeners,          \* this.listeners, in the order of the subscriptions
    unsubscribeFns,     \* the listeners whose unsubscribe function exists
    subscribes,         \* subscribeToNotifications calls so far
    notified,           \* the last run of notifyListeners: the listeners
                        \* it invoked, in order, and the list it passed
    \* --- OpenAIService
    useDemoMode,        \* this.useDemoMode
    checking,           \* checkBackendAvailability is awaiting its fetch
    chats,              \* the createChatCompletion calls made so far
    \* --- AuthService and the storage under '@auth_token'
    mockUsers,          \* the module-level list of users
    signUps,            \* the signUp calls made so far
    authToken           \* the item in storage: <<>> is none, else
                        \* <<the user id the token ends with>>

httpVars == <<reqs, httpTimers, issued, lastCall, lastFetch>>
pollVars == <<started, interval, hasOnError, isPolling, pollTimers, dataCalls,
              errorCalls, pollDied, pollIssued, lastIssueAt, issueBase,
              lastDoneAt, lats, stopAt, afterStop>>
wsVars == <<wsUrlOk, hasWsOnError, hasOnClose, ws, socks, created, reconnectAttempts, reconnectDelay,
            wsTimers, invoked, userConnects, waits, disconnected>>
screenVars == <<mounted, autoRefresh, isBackendConnected, isLoading,
                isRefreshing, error, pollingStopFn, screenPollers,
                healthChecks>>
storeVars == <<currentSession, sessions, clock, starts, itemsAdded, writes,
               stored, loading, auth, settings, simulatorEnabled,
               connectedDevice, sets>>
\* What the session actions of the store leave alone.
setterVars == <<auth, settings, simulatorEnabled, connectedDevice, sets>>
notifVars == <<notifications, nextId, added, edits, saves,
               storedNotifications, initialized, loadingNotifications,
               listeners, unsubscribeFns, subscribes, notified>>
\* What the mutators of the notification list leave alone.
listenerVars == <<listeners, unsubscribeFns, subscribes, notified>>
chatVars == <<useDemoMode, checking, chats>>
authVars == <<mockUsers, signUps, authToken>>
appVars == <<screenVars, storeVars, notifVars, chatVars, authVars>>
vars == <<now, httpVars, pollVars, wsVars, appVars>>
\* What the actions of the screen leave alone.
screenOthers == <<now, httpVars, pollVars, wsVars, storeVars, notifVars,
                  chatVars, authVars>>
\* What the actions of the store leave alone.
storeOthers == <<now, httpVars, pollVars, wsVars, screenVars, notifVars,
                 chatVars, authVars>>
\* What the actions of the notification service leave alone.
notifOthers == <<now, httpVars, pollVars, wsVars, screenVars, storeVars,
                 chatVars, authVars>>
\* What the actions of the chat service leave alone.
chatOthers == <<now, httpVars, pollVars, wsVars, screenVars, storeVars,
                notifVars, authVars>>
\* What the actions of the auth service leave alone.
authOthers == <<now, httpVars, pollVars, wsVars, screenVars, storeVars,
                notifVars, chatVars>>

\* const mockUsers = [...]: the ids and emails of the three demo users.
InitialMockUsers ==
    << [id |-> "1", email |-> "demo@example.com"],
       [id |-> "2", email |-> "john@wearable.com"],
       [id |-> "3", email |-> "sarah@fitness.com"] >>

\* auth: { isAuthenticated: false, user: undefined, token: undefined }
\* (<<>> stands for a member that is undefined or missing).
LoggedOut == [isAuthenticated |-> FALSE, user |-> <<>>, token |-> <<>>]

\* const defaultSettings: two of its members.
defaultSettings == [enableVoice |-> TRUE, ble |-> [mtu |-> 512]]

NoCall == [api |-> "none", cause |-> "none", kind |-> "none", val |-> "none",
           text |-> 0]

\* The state after construction, but for what the device's storage holds
\* under '@notifications' and '@app_state' and for the session calls that
\* earlier runs of the application have made.
InitProgram ==
    /\ now = 0
    /\ reqs = {}
    /\ httpTimers = {}
    /\ issued = 0
    /\ lastCall = NoCall
    /\ lastFetch = "none"
    /\ started = FALSE
    /\ interval = 1000
    /\ hasOnError = FALSE
    /\ isPolling = FALSE
    /\ pollTimers = {}
    /\ dataCalls = 0
    /\ errorCalls = 0
    /\ pollDied = FALSE
    /\ pollIssued = 0
    /\ lastIssueAt = -1
    /\ issueBase = -1
    /\ lastDoneAt = -1
    /\ lats = {}
    /\ stopAt = -1
    /\ afterStop = <<0, 0>>
    /\ wsUrlOk = TRUE
    /\ hasWsOnError = FALSE
    /\ hasOnClose = FALSE
    /\ ws = 0
    /\ socks = {}
    /\ created = 0
    /\ reconnectAttempts = 0
    /\ reconnectDelay = InitialReconnectDelay
    /\ wsTimers = EmptyBag
    /\ invoked = <<>>
    /\ userConnects = 0
    /\ waits = <<>>
    /\ disconnected = FALSE
    /\ mounted = "no"
    /\ autoRefresh = TRUE
    /\ isBackendConnected = FALSE
    /\ isLoading = TRUE
    /\ isRefreshing = FALSE
    /\ error = FALSE
    /\ pollingStopFn = 0
    /\ screenPollers = <<>>
    /\ healthChecks = <<>>
    /\ currentSession = <<>>
    /\ sessions = <<>>
    /\ clock = 0
    /\ writes = <<>>
    /\ loading = FALSE
    /\ auth = LoggedOut
    /\ settings = defaultSettings
    /\ simulatorEnabled = FALSE
    /\ connectedDevice = <<>>
    /\ sets = 0
    /\ notifications = <<>>
    /\ added = 0
    /\ edits = 0
    /\ saves = <<>>
    /\ initialized = FALSE
    /\ loadingNotifications = FALSE
    /\ listeners = <<>>
    /\ unsubscribeFns = {}
    /\ subscribes = 0
    /\ notified = [by |-> <<>>, list |-> <<>>]
    /\ useDemoMode = FALSE
    /\ checking = TRUE
    /\ chats = <<>>
    /\ mockUsers = InitialMockUsers
    /\ signUps = <<>>
    /\ authToken = <<>>

\* The first run of the application: nothing is in storage.
Init ==
    /\ InitProgram
    /\ nextId = 1
    /\ storedNotifications = <<>>
    /\ starts = 0
    /\ itemsAdded = 0
    /\ stored = <<>>

\* ------------------------------------------------------------ HTTP wrapper

\* response.ok
Ok(status) == status >= 200 /\ status <= 299

\* A fresh id for a request and its timer.
FreshId ==
    CHOOSE i \in 1..(MaxFetches + 2) :
        /\ \A r \in reqs : r.id # i
        /\ \A t \in httpTimers : t.id # i
        /\ \A j \in 1..(i - 1) :
               (\E r \in reqs : r.id = j) \/ (\E t \in httpTimers : t.id = j)

\* setTimeout(() => controller.abort(), this.timeout)
StartTimer(id) == httpTimers \cup {[id |-> id, at |-> now + TIMEOUT]}

\* A fetchWithTimeout that never calls clearTimeout.
ClearTimerSkipped(id) == httpTimers

\* clearTimeout(timeoutId)
ClearTimer(id) == {t \in httpTimers : t.id # id}

\* fetchWithTimeout up to its await: the timer is started and fetch() called.
\* `lat` is when the network will answer.
IssueRequest(api, owner, lat) ==
    /\ issued < MaxFetches
    /\ reqs' = reqs \cup {[id |-> FreshId, api |-> api, owner |-> owner,
                           phase |-> "fetch",
                           respAt |-> IF lat = Never THEN Never ELSE now + lat]}
    /\ httpTimers' = StartTimer(FreshId)
    /\ issued' = issued + 1

\* A fetchWithTimeout that throws one generic error for every failure.
FetchCatchGeneric(e) == "NetworkError"

\* `catch (error) { clearTimeout(timeoutId); throw error; }`: the error that
\* leaves fetchWithTimeout is the one fetch() rejected with.
FetchCatch(e) == e

\* `text` is response.statusText where the error message carries it (given
\* here by the status code it is the reason phrase of), else 0.
Return(v) == [kind |-> "return", val |-> v, text |-> 0]
Throw(e) == [kind |-> "throw", val |-> e, text |-> 0]
\* throw new Error(`... failed: ${response.statusText}`)
ThrowStatus(status) == [kind |-> "throw", val |-> "StatusError",
                        text |-> status]

\* API methods that do not look at response.ok.
OnResponseUnchecked(api, status) == "json"

\* What the API method does with the response fetchWithTimeout returned:
\* "json" stands for going on to `await response.json()`.
OnResponse(api, status) ==
    IF api = "health"
    THEN IF Ok(status) THEN "json" ELSE "null"
    ELSE IF Ok(status) THEN "json" ELSE "StatusError"

\* A checkHealth whose failures escape it like those of the other methods.
OnExceptionRethrown(api, e) == Throw(e)

\* What the API method does with an exception `e` of its awaits.
OnException(api, e) ==
    IF api = "health" THEN Return("null") ELSE Throw(e)


\* ------------------------------------------------------------ stream poller

\* A poll() without the check of the flag at its head.
PollMayRunUnchecked == TRUE

\* `if (!isPolling) return;` at the head of poll().
PollMayRun == isPolling

\* `if (isPolling) setTimeout(...)` at the end of poll(); `escaped` says that
\* an exception left the catch block, so that this line is never reached.
PollReschedules(escaped) == ~escaped /\ isPolling

\* A fixed-rate schedule: the next poll is due one interval after the
\* previous fetch was issued.
NextPollAtFixedRate == lastIssueAt + interval

\* The due time of setTimeout(poll, interval), set when the fetch has settled.
NextPollAt == now + interval

\* A repeating timer (setInterval) in place of the one-shot one.
PollTimerRepeats(t) == (pollTimers \ {t}) \cup {now + interval}

\* setTimeout is one-shot: the timer that fired is gone.
PollTimerFired(t) == pollTimers \ {t}

\* poll() from its head to `await this.getStreamData()`.
PollIssue(lat) ==
    /\ IssueRequest("stream", "poll", lat)
    /\ pollIssued' = pollIssued + 1
    /\ lastIssueAt' = now
    /\ issueBase' = lastDoneAt
    /\ lats' = lats \cup {lat}

\* A poll() whose setTimeout sits inside the try block, after onData: a
\* failed fetch is not followed by another one.
PollAfterFetchInTry(outcome, dataThrows, errorThrows) ==
    LET dataCalled == outcome.kind = "return"
        caught == outcome.kind = "throw" \/ (dataCalled /\ dataThrows)
        errorCalled == caught /\ hasOnError
        escaped == errorCalled /\ errorThrows
    IN  /\ dataCalls' = dataCalls + (IF dataCalled THEN 1 ELSE 0)
        /\ errorCalls' = errorCalls + (IF errorCalled THEN 1 ELSE 0)
        /\ pollDied' = (pollDied \/ escaped)
        /\ pollTimers' = IF ~caught /\ isPolling
                         THEN pollTimers \cup {NextPollAt}
                         ELSE pollTimers
        /\ lastDoneAt' = now
        /\ afterStop' = IF isPolling THEN afterStop
                        ELSE <<afterStop[1] + (IF dataCalled THEN 1 ELSE 0),
                               afterStop[2] + (IF errorCalled THEN 1 ELSE 0)>>
        /\ UNCHANGED <<started, interval, hasOnError, isPolling, pollIssued,
                       lastIssueAt, issueBase, lats, stopAt>>

\* A poll() that looks at the flag again after the await and drops the result
\* of a fetch that settled after stop.
PollAfterFetchDropsLate(outcome, dataThrows, errorThrows) ==
    LET dataCalled == outcome.kind = "return" /\ isPolling
        caught == isPolling /\ outcome.kind = "throw"
        errorCalled == caught /\ hasOnError
        escaped == errorCalled /\ errorThrows
    IN  /\ dataCalls' = dataCalls + (IF dataCalled THEN 1 ELSE 0)
        /\ errorCalls' = errorCalls + (IF errorCalled THEN 1 ELSE 0)
        /\ pollDied' = (pollDied \/ escaped)
        /\ pollTimers' = IF PollReschedules(escaped)
                         THEN pollTimers \cup {NextPollAt}
                         ELSE pollTimers
        /\ lastDoneAt' = now
        /\ afterStop' = afterStop
        /\ UNCHANGED <<started, interval, hasOnError, isPolling, pollIssued,
                       lastIssueAt, issueBase, lats, stopAt>>

\* A poll() that calls onData after the try statement: an exception of the
\* data callback is not caught, it ends poll() as one of onError does.
PollAfterFetchDataUncaught(outcome, dataThrows, errorThrows) ==
    LET dataCalled == outcome.kind = "return"
        caught == outcome.kind = "throw"
        errorCalled == caught /\ hasOnError
        escaped == (errorCalled /\ errorThrows) \/ (dataCalled /\ dataThrows)
    IN  /\ dataCalls' = dataCalls + (IF dataCalled THEN 1 ELSE 0)
        /\ errorCalls' = errorCalls + (IF errorCalled THEN 1 ELSE 0)
        /\ pollDied' = (pollDied \/ escaped)
        /\ pollTimers' = IF PollReschedules(escaped)
                         THEN pollTimers \cup {NextPollAt}
                         ELSE pollTimers
        /\ lastDoneAt' = now
        /\ afterStop' = IF isPolling THEN afterStop
                        ELSE <<afterStop[1] + (IF dataCalled THEN 1 ELSE 0),
                               afterStop[2] + (IF errorCalled THEN 1 ELSE 0)>>
        /\ UNCHANGED <<started, interval, hasOnError, isPolling, pollIssued,
                       lastIssueAt, issueBase, lats, stopAt>>

\* poll() after the await: onData or the catch block, then the rescheduling.
\* dataThrows / errorThrows: the callback, if invoked, throws.
PollAfterFetch(outcome, dataThrows, errorThrows) ==
    LET dataCalled == outcome.kind = "return"
        caught == outcome.kind = "throw" \/ (dataCalled /\ dataThrows)
        errorCalled == caught /\ hasOnError
        escaped == errorCalled /\ errorThrows
    IN  /\ dataCalls' = dataCalls + (IF dataCalled THEN 1 ELSE 0)
        /\ errorCalls' = errorCalls + (IF errorCalled THEN 1 ELSE 0)
        /\ pollDied' = (pollDied \/ escaped)
        /\ pollTimers' = IF PollReschedules(escaped)
                         THEN pollTimers \cup {NextPollAt}
                         ELSE pollTimers
        /\ lastDoneAt' = now
        /\ afterStop' = IF isPolling THEN afterStop
                        ELSE <<afterStop[1] + (IF dataCalled THEN 1 ELSE 0),
                               afterStop[2] + (IF errorCalled THEN 1 ELSE 0)>>
        /\ UNCHANGED <<started, interval, hasOnError, isPolling, pollIssued,
                       lastIssueAt, issueBase, lats, stopAt>>

\* The promise of an API method settles: its caller goes on.
Settle(r, cause, outcome) ==
    /\ reqs' = reqs \ {r}
    /\ IF r.owner = "poll"
       THEN /\ \E dataThrows, errorThrows \in BOOLEAN :
                   PollAfterFetch(outcome, dataThrows, errorThrows)
            /\ UNCHANGED lastCall
       ELSE /\ lastCall' = [api |-> r.api, cause |-> cause,
                            kind |-> outcome.kind, val |-> outcome.val,
                            text |-> outcome.text]
            /\ UNCHANGED pollVars

\* The response arrives: fetchWithTimeout clears its timer and returns it.
ReqRespond(r, status) ==
    /\ UNCHANGED <<wsVars, appVars>>
    /\ r \in reqs /\ r.phase = "fetch" /\ r.respAt # Never /\ r.respAt <= now
    /\ httpTimers' = ClearTimer(r.id)
    /\ lastFetch' = "response"
    /\ UNCHANGED <<now, issued>>
    /\ CASE OnResponse(r.api, status) = "json" ->
                /\ reqs' = (reqs \ {r}) \cup {[r EXCEPT !.phase = "json"]}
                /\ UNCHANGED <<lastCall, pollVars>>
         [] OnResponse(r.api, status) = "null" ->
                Settle(r, "non2xx", Return("null"))
         [] OTHER ->
                Settle(r, "non2xx", ThrowStatus(status))

\* fetch() rejects (DNS, connection refused, ...): the catch block clears the
\* timer and rethrows.
ReqNetworkFail(r) ==
    /\ UNCHANGED <<wsVars, appVars>>
    /\ r \in reqs /\ r.phase = "fetch" /\ r.respAt # Never /\ r.respAt <= now
    /\ httpTimers' = ClearTimer(r.id)
    /\ lastFetch' = FetchCatch("NetworkError")
    /\ UNCHANGED <<now, issued>>
    /\ Settle(r, "network", OnException(r.api, FetchCatch("NetworkError")))

\* The timeout timer fires: controller.abort().  A fetch() still waiting on
\* that signal rejects with an AbortError, which fetchWithTimeout rethrows; a
\* body still being read on it (response.json()) rejects with it as well.
ReqTimeout(t) ==
    /\ UNCHANGED <<wsVars, appVars>>
    /\ t \in httpTimers /\ t.at <= now
    /\ httpTimers' = httpTimers \ {t}
    /\ UNCHANGED <<now, issued>>
    /\ IF \E r \in reqs : r.id = t.id
       THEN LET r == CHOOSE q \in reqs : q.id = t.id
            IN  IF r.phase = "fetch"
                THEN /\ lastFetch' = FetchCatch("AbortError")
                     /\ Settle(r, "timeout",
                               OnException(r.api, FetchCatch("AbortError")))
                ELSE /\ UNCHANGED lastFetch
                     /\ Settle(r, "timeout",
                               OnException(r.api, "AbortError"))
       ELSE UNCHANGED <<reqs, lastCall, lastFetch, pollVars>>

\* `await response.json()` settles.
ReqJson(r, valid) ==
    /\ UNCHANGED <<wsVars, appVars>>
    /\ r \in reqs /\ r.phase = "json"
    /\ UNCHANGED <<now, issued, httpTimers, lastFetch>>
    /\ IF valid
       THEN Settle(r, "ok", Return("value"))
       ELSE Settle(r, "badjson", OnException(r.api, "SyntaxError"))

\* A direct call of one of the API methods.
Call(api, lat) ==
    /\ UNCHANGED <<wsVars, appVars>>
    /\ issued < MaxCalls
    /\ IssueRequest(api, "call", lat)
    /\ UNCHANGED <<now, lastCall, lastFetch, pollVars>>

\* startPolling(onData, interval, onError?): poll() runs at once.
StartPolling(i, e, lat) ==
    /\ UNCHANGED <<wsVars, appVars>>
    /\ ~started
    /\ started' = TRUE
    /\ interval' = i
    /\ hasOnError' = e
    /\ isPolling' = TRUE
    /\ PollIssue(lat)
    /\ UNCHANGED <<now, lastCall, lastFetch, pollTimers, dataCalls, errorCalls,
                   pollDied, lastDoneAt, stopAt, afterStop>>

\* A setTimeout(poll, interval) timer fires and poll() runs.
PollTimerFire(t) ==
    /\ UNCHANGED <<wsVars, appVars>>
    /\ t \in pollTimers /\ t <= now
    /\ pollTimers' = PollTimerFired(t)
    /\ UNCHANGED <<now, lastCall, lastFetch, started, interval, hasOnError,
                   isPolling, dataCalls, errorCalls, pollDied, lastDoneAt,
                   stopAt, afterStop>>
    /\ IF PollMayRun
       THEN \E lat \in Latencies : PollIssue(lat)
       ELSE UNCHANGED <<reqs, httpTimers, issued, pollIssued, lastIssueAt,
                        issueBase, lats>>

\* The stop handle returned by startPolling.
Stop ==
    /\ UNCHANGED <<wsVars, appVars>>
    /\ started
    /\ isPolling' = FALSE
    /\ stopAt' = IF stopAt = -1 THEN pollIssued ELSE stopAt
    /\ UNCHANGED <<now, httpVars, started, interval, hasOnError, pollTimers,
                   dataCalls, errorCalls, pollDied, pollIssued, lastIssueAt,
                   issueBase, lastDoneAt, lats, afterStop>>

\* ------------------------------------------------------------------- clock

DueTimes ==
    {r.respAt : r \in {q \in reqs : q.phase = "fetch" /\ q.respAt # Never}}
        \cup {t.at : t \in httpTimers} \cup pollTimers

Min(S) == CHOOSE x \in S : \A y \in S : x <= y

\* Time passes to the next event once everything due has been handled.
Advance ==
    /\ UNCHANGED <<wsVars, appVars>>
    /\ \A r \in reqs : r.phase # "json"
    /\ DueTimes # {}
    /\ Min(DueTimes) > now
    /\ Min(DueTimes) <= MaxTime
    /\ now' = Min(DueTimes)
    /\ UNCHANGED <<httpVars, pollVars>>

HttpEvents ==
    \/ \E r \in reqs, s \in Statuses : ReqRespond(r, s)
    \/ \E r \in reqs : ReqNetworkFail(r)
    \/ \E t \in httpTimers : ReqTimeout(t)
    \/ \E r \in reqs, valid \in BOOLEAN : ReqJson(r, valid)
    \/ Advance

NextPoller ==
    \/ \E i \in Intervals, e \in BOOLEAN, lat \in Latencies : StartPolling(i, e, lat)
    \/ \E t \in pollTimers : PollTimerFire(t)
    \/ Stop
    \/ HttpEvents

SpecPoller == Init /\ [][NextPoller]_vars

NextHttp ==
    \/ \E api \in Apis, lat \in CallLatencies : Call(api, lat)
    \/ HttpEvents

SpecHttp == Init /\ [][NextHttp]_vars

\* -------------------------------------------------------- WebSocket client

httpPollVars == <<now, httpVars, pollVars>>

\* The frames a message event may carry: a stream_data message with data, one
\* whose data is missing or falsy, a message of another type, JSON that is
\* not an object with properties (null), and text that is not JSON.
Frames == {"stream_data", "stream_nodata", "other", "null", "malformed"}

\* A test of the type alone: `message.type === 'stream_data'`.
DeliversByTypeOnly(frame) == frame \in {"stream_data", "stream_nodata"}

\* `message.type === 'stream_data' && message.data`, reached when JSON.parse
\* and the property reads did not throw.
Delivers(frame) == frame = "stream_data"

\* A reconnect test that lets one more attempt through.
MayReconnectInclusive == reconnectAttempts <= maxReconnectAttempts

\* `this.reconnectAttempts < this.maxReconnectAttempts`
MayReconnect == reconnectAttempts < maxReconnectAttempts

\* A backoff without its ceiling.
BackoffUncapped(d) == d * 2

\* Math.min(this.reconnectDelay * 2, 30000)
Backoff(d) == IF d * 2 < MaxReconnectDelay THEN d * 2 ELSE MaxReconnectDelay

\* An onopen that leaves the delay where the backoff put it.
DelayOnOpenKept == reconnectDelay

\* `this.reconnectDelay = 1000` in onopen
DelayOnOpen == 1000

\* The pending reconnect timers are a bag of delays.
TimerCount == BagCardinality(wsTimers)

\* The body of connectWebSocket; `urlOk`: the constructor does not throw,
\* `cbE`: an onError callback was passed.
ConnectBody(urlOk, cbE) ==
    IF urlOk
    THEN /\ created < MaxSockets
         /\ created' = created + 1
         /\ ws' = created + 1
         /\ socks' = socks \cup {[id |-> created + 1, state |-> "CONNECTING"]}
         /\ invoked' = <<>>
    ELSE /\ invoked' = IF cbE THEN <<"onError">> ELSE <<>>
         /\ UNCHANGED <<created, ws, socks>>

\* connectWebSocket(onMessage, onError?, onClose?) called by the application.
\* The URL and the callbacks the application passes are the same in all its
\* calls: they are drawn at the first one.
ConnectWebSocket(urlOk, cbE, cbC) ==
    /\ userConnects < MaxUserConnects
    /\ userConnects > 0 =>
           (urlOk = wsUrlOk /\ cbE = hasWsOnError /\ cbC = hasOnClose)
    /\ wsUrlOk' = urlOk
    /\ hasWsOnError' = cbE
    /\ hasOnClose' = cbC
    /\ userConnects' = userConnects + 1
    /\ ConnectBody(urlOk, cbE)
    /\ disconnected' = FALSE
    /\ UNCHANGED <<reconnectAttempts, reconnectDelay, wsTimers, waits>>
    /\ UNCHANGED <<httpPollVars, appVars>>

\* ws.onopen
OnOpen(s) ==
    /\ s \in socks /\ s.state = "CONNECTING"
    /\ socks' = (socks \ {s}) \cup {[s EXCEPT !.state = "OPEN"]}
    /\ reconnectAttempts' = 0
    /\ reconnectDelay' = DelayOnOpen
    /\ waits' = <<>>
    /\ invoked' = <<>>
    /\ UNCHANGED <<wsUrlOk, hasWsOnError, hasOnClose, ws, created, wsTimers,
                   userConnects, disconnected>>
    /\ UNCHANGED <<httpPollVars, appVars>>

\* ws.onmessage: whatever the frame and whatever onMessage does, nothing but
\* the callback is affected (an exception is caught and logged).
OnMessage(s, frame) ==
    /\ s \in socks /\ s.state \in {"OPEN", "CLOSING"}
    /\ invoked' = IF Delivers(frame) THEN <<"onMessage">> ELSE <<>>
    /\ UNCHANGED <<wsUrlOk, hasWsOnError, hasOnClose, ws, socks, created,
                   reconnectAttempts, reconnectDelay, wsTimers, userConnects,
                   waits, disconnected>>
    /\ UNCHANGED <<httpPollVars, appVars>>

\* An onerror that treats the error as the end of the connection and
\* schedules a reconnect itself.
OnErrorReconnects(s) ==
    /\ s \in socks
    /\ invoked' = IF hasWsOnError THEN <<"onError">> ELSE <<>>
    /\ socks' = socks \ {s}
    /\ wsTimers' = wsTimers (+) SetToBag({reconnectDelay})
    /\ UNCHANGED <<wsUrlOk, hasWsOnError, hasOnClose, ws, created,
                   reconnectAttempts, reconnectDelay, userConnects,
                   waits, disconnected>>
    /\ UNCHANGED <<httpPollVars, appVars>>

\* ws.onerror
OnError(s) ==
    /\ s \in socks
    /\ invoked' = IF hasWsOnError THEN <<"onError">> ELSE <<>>
    /\ UNCHANGED <<wsUrlOk, hasWsOnError, hasOnClose, ws, socks, created,
                   reconnectAttempts, reconnectDelay, wsTimers, userConnects,
                   waits, disconnected>>
    /\ UNCHANGED <<httpPollVars, appVars>>

\* ws.onclose; `closeThrows`: onClose, if supplied, throws, which ends the
\* handler before the reconnect logic.
OnClose(s, closeThrows) ==
    /\ s \in socks
    /\ socks' = socks \ {s}
    /\ invoked' = IF hasOnClose THEN <<"onClose">> ELSE <<>>
    /\ IF ~(hasOnClose /\ closeThrows) /\ MayReconnect
       THEN /\ reconnectAttempts' = reconnectAttempts + 1
            /\ wsTimers' = wsTimers (+) SetToBag({reconnectDelay})
            /\ reconnectDelay' = Backoff(reconnectDelay)
            /\ waits' = Append(waits, reconnectDelay)
       ELSE UNCHANGED <<reconnectAttempts, wsTimers, reconnectDelay, waits>>
    /\ UNCHANGED <<wsUrlOk, hasWsOnError, hasOnClose, ws, created,
                   userConnects, disconnected>>
    /\ UNCHANGED <<httpPollVars, appVars>>

\* A reconnect timer fires: connectWebSocket with the same callbacks.
ReconnectFire(d) ==
    /\ BagIn(d, wsTimers)
    /\ wsTimers' = wsTimers (-) SetToBag({d})
    /\ ConnectBody(wsUrlOk, hasWsOnError)
    /\ UNCHANGED <<wsUrlOk, hasWsOnError, hasOnClose, reconnectAttempts,
                   reconnectDelay, userConnects, waits, disconnected>>
    /\ UNCHANGED <<httpPollVars, appVars>>

\* A disconnect that leaves the counter where it is.
AttemptsOnDisconnectKept == reconnectAttempts

\* `this.reconnectAttempts = this.maxReconnectAttempts` in disconnectWebSocket
AttemptsOnDisconnect == maxReconnectAttempts

\* disconnectWebSocket(): close() on a socket that is CONNECTING or OPEN makes
\* it CLOSING (its close event follows), on any other socket it does nothing.
DisconnectWebSocket ==
    /\ IF ws # 0
       THEN /\ reconnectAttempts' = AttemptsOnDisconnect
            /\ socks' = {IF s.id = ws THEN [s EXCEPT !.state = "CLOSING"] ELSE s
                            : s \in socks}
            /\ ws' = 0
            /\ disconnected' = TRUE
       ELSE UNCHANGED <<reconnectAttempts, socks, ws, disconnected>>
    /\ invoked' = <<>>
    /\ UNCHANGED <<wsUrlOk, hasWsOnError, hasOnClose, created, reconnectDelay,
                   wsTimers, userConnects, waits>>
    /\ UNCHANGED <<httpPollVars, appVars>>

NextWS ==
    \/ \E urlOk, cbE, cbC \in BOOLEAN : ConnectWebSocket(urlOk, cbE, cbC)
    \/ \E s \in socks : OnOpen(s)
    \/ \E s \in socks, f \in Frames : OnMessage(s, f)
    \/ \E s \in socks : OnError(s)
    \/ \E s \in socks, closeThrows \in BOOLEAN : OnClose(s, closeThrows)
    \/ \E d \in BagToSet(wsTimers) : ReconnectFire(d)
    \/ DisconnectWebSocket

SpecWS == Init /\ [][NextWS]_vars

\* ---------------------------------------------------------- LiveDataScreen
\* React commits the render that a state change causes and runs the cleanup
\* of the previous polling effect and the effect itself when the dependencies
\* [autoRefresh, isBackendConnected] differ from those of the last run.  A
\* state change and the commit it causes are one step here; a state setter
\* called after the unmount does nothing.

\* stopPolling(): `st` is [fn: the ref, pollers: the pollers' flags].
ScreenStopPolling(st) ==
    IF st.fn # 0
    THEN [fn |-> 0,
          pollers |-> [st.pollers EXCEPT ![st.fn].isPolling = FALSE]]
    ELSE st

\* startPolling(): stopPolling(), then backendAPI.startPolling(...), whose
\* first poll() issues its fetch at once.
ScreenStartPolling(st) ==
    LET a == ScreenStopPolling(st)
    IN  [fn |-> Len(a.pollers) + 1,
         pollers |-> Append(a.pollers, [isPolling |-> TRUE, fetching |-> TRUE])]

\* A polling effect that returns no cleanup function.
EffectCleanupMissing(st) == st

\* `return () => stopPolling();`
EffectCleanup(st) == ScreenStopPolling(st)

\* The body of the polling effect, run with the values of the render.
PollingEffect(st, ar, conn) ==
    IF ar /\ conn THEN ScreenStartPolling(st) ELSE ScreenStopPolling(st)

ScreenRefs == [fn |-> pollingStopFn, pollers |-> screenPollers]

\* The commit of a render in which the two dependencies are `ar` and `conn`.
Commit(ar, conn) ==
    IF mounted = "yes" /\ <<ar, conn>> # <<autoRefresh, isBackendConnected>>
    THEN LET st == PollingEffect(EffectCleanup(ScreenRefs), ar, conn)
         IN  /\ Len(st.pollers) <= MaxPollers
             /\ pollingStopFn' = st.fn
             /\ screenPollers' = st.pollers
    ELSE UNCHANGED <<pollingStopFn, screenPollers>>

\* The first render and its effects: checkBackendHealth() is called, and the
\* polling effect runs with autoRefresh = true, isBackendConnected = false.
Mount ==
    /\ mounted = "no"
    /\ mounted' = "yes"
    /\ healthChecks' = Append(healthChecks, "health")
    /\ LET st == PollingEffect(ScreenRefs, autoRefresh, isBackendConnected)
       IN  pollingStopFn' = st.fn /\ screenPollers' = st.pollers
    /\ UNCHANGED <<autoRefresh, isBackendConnected, isLoading, isRefreshing,
                   error>>
    /\ UNCHANGED screenOthers

\* `await backendAPI.checkHealth()` of the i-th checkBackendHealth settles
\* (it never throws).  healthy: the status is 'healthy'; the activation goes
\* on to connectToBackend, which sets no state, and fetchData.
HealthDone(i, healthy) ==
    /\ i \in 1..Len(healthChecks) /\ healthChecks[i] = "health"
    /\ healthChecks' = [healthChecks EXCEPT
                           ![i] = IF healthy THEN "fetch" ELSE "done"]
    /\ IF mounted = "yes"
       THEN /\ isBackendConnected' = healthy
            /\ error' = ~healthy
            /\ isLoading' = IF healthy THEN isLoading ELSE FALSE
            /\ Commit(autoRefresh, healthy)
       ELSE UNCHANGED <<isBackendConnected, error, isLoading, pollingStopFn,
                        screenPollers>>
    /\ UNCHANGED <<mounted, autoRefresh, isRefreshing>>
    /\ UNCHANGED screenOthers

\* `await fetchData()` of the i-th checkBackendHealth settles; `ok`: the
\* getStreamData call of fetchData did not throw.
HealthFetchDone(i, ok) ==
    /\ i \in 1..Len(healthChecks) /\ healthChecks[i] = "fetch"
    /\ healthChecks' = [healthChecks EXCEPT ![i] = "done"]
    /\ IF mounted = "yes"
       THEN error' = ~ok /\ isLoading' = FALSE
       ELSE UNCHANGED <<error, isLoading>>
    /\ UNCHANGED <<mounted, autoRefresh, isBackendConnected, isRefreshing,
                   pollingStopFn, screenPollers>>
    /\ UNCHANGED screenOthers

\* The view that is showing: the spinner, the error view with its Retry
\* button, or the data view with the play/pause and close buttons.
View ==
    IF isLoading THEN "loading"
    ELSE IF ~isBackendConnected \/ error THEN "error" ELSE "data"

\* The Retry button: checkBackendHealth().
Retry ==
    /\ mounted = "yes" /\ View = "error"
    /\ Len(healthChecks) < MaxHealthChecks
    /\ healthChecks' = Append(healthChecks, "health")
    /\ UNCHANGED <<mounted, autoRefresh, isBackendConnected, isLoading,
                   isRefreshing, error, pollingStopFn, screenPollers>>
    /\ UNCHANGED screenOthers

\* toggleAutoRefresh: setAutoRefresh(!autoRefresh)
ToggleAutoRefresh ==
    /\ mounted = "yes" /\ View = "data"
    /\ autoRefresh' = ~autoRefresh
    /\ Commit(~autoRefresh, isBackendConnected)
    /\ UNCHANGED <<mounted, isBackendConnected, isLoading, isRefreshing,
                   error, healthChecks>>
    /\ UNCHANGED screenOthers

\* handleRefresh up to `await fetchData()`.
HandleRefresh ==
    /\ mounted = "yes" /\ View = "data" /\ ~isRefreshing
    /\ isRefreshing' = TRUE
    /\ UNCHANGED <<mounted, autoRefresh, isBackendConnected, isLoading,
                   error, pollingStopFn, screenPollers, healthChecks>>
    /\ UNCHANGED screenOthers

\* The fetchData of handleRefresh settles.
RefreshDone(ok) ==
    /\ mounted = "yes" /\ isRefreshing
    /\ isRefreshing' = FALSE
    /\ error' = ~ok
    /\ UNCHANGED <<mounted, autoRefresh, isBackendConnected, isLoading,
                   pollingStopFn, screenPollers, healthChecks>>
    /\ UNCHANGED screenOthers

\* The timer of poller k fires: poll() issues a fetch if the poller has not
\* been stopped.
ScreenPollerFetch(k) ==
    /\ k \in 1..Len(screenPollers)
    /\ screenPollers[k].isPolling /\ ~screenPollers[k].fetching
    /\ screenPollers' = [screenPollers EXCEPT ![k].fetching = TRUE]
    /\ UNCHANGED <<mounted, autoRefresh, isBackendConnected, isLoading,
                   isRefreshing, error, pollingStopFn, healthChecks>>
    /\ UNCHANGED screenOthers

\* The fetch of poller k settles, stopped or not, and the callback the
\* screen passed runs: setError(null) in onData, setError(...) in onError.
ScreenPollerResult(k, ok) ==
    /\ k \in 1..Len(screenPollers)
    /\ screenPollers[k].fetching
    /\ screenPollers' = [screenPollers EXCEPT ![k].fetching = FALSE]
    /\ error' = IF mounted = "yes" THEN ~ok ELSE error
    /\ UNCHANGED <<mounted, autoRefresh, isBackendConnected, isLoading,
                   isRefreshing, pollingStopFn, healthChecks>>
    /\ UNCHANGED screenOthers

\* The screen is left (the close button, or any other navigation): React
\* runs the cleanup of the polling effect.
Unmount ==
    /\ mounted = "yes"
    /\ mounted' = "gone"
    /\ LET st == EffectCleanup(ScreenRefs)
       IN  pollingStopFn' = st.fn /\ screenPollers' = st.pollers
    /\ UNCHANGED <<autoRefresh, isBackendConnected, isLoading, isRefreshing,
                   error, healthChecks>>
    /\ UNCHANGED screenOthers

NextScreen ==
    \/ Mount
    \/ \E i \in 1..MaxHealthChecks, healthy \in BOOLEAN : HealthDone(i, healthy)
    \/ \E i \in 1..MaxHealthChecks, ok \in BOOLEAN : HealthFetchDone(i, ok)
    \/ Retry
    \/ ToggleAutoRefresh
    \/ HandleRefresh
    \/ \E ok \in BOOLEAN : RefreshDone(ok)
    \/ \E k \in 1..MaxPollers : ScreenPollerFetch(k)
    \/ \E k \in 1..MaxPollers, ok \in BOOLEAN : ScreenPollerResult(k, ok)
    \/ Unmount

SpecScreen == Init /\ [][NextScreen]_vars

\* ------------------------------------------------------------------- store

\* The contents of the messages and the ids of the sensor events the
\* application adds.
Messages == {"m1", "m2"}
SensorEvents == {"e1"}
\* The values Date.now() takes.
ClockValues == {0, 1}

\* An endTime that is undefined.
NoTime == 0 - 1

\* The message the session screen makes: `timestamp: new Date()`.
NewMessage(m) == [content |-> m, timestamp |-> clock]

\* The event a sensor source makes: `timestamp: new Date()`.
NewSensorEvent(e) == [id |-> e, timestamp |-> clock]

\* A session with the message put in front of the others.
WithMessageInFront(s, msg) == [s EXCEPT !.messages = <<msg>> \o s.messages]

\* { ...currentSession, messages: [...currentSession.messages, message] }
WithMessage(s, msg) == [s EXCEPT !.messages = Append(s.messages, msg)]

\* { ...currentSession, sensorEvents: [...currentSession.sensorEvents, event] }
WithSensorEvent(s, ev) == [s EXCEPT !.sensorEvents = Append(s.sensorEvents, ev)]

\* A startSession that carries the messages of the session it replaces over
\* to the new one.
NewSessionKeepsMessages ==
    [id |-> clock, startTime |-> clock, endTime |-> NoTime,
     status |-> "active",
     messages |-> IF currentSession # <<>> THEN currentSession[1].messages
                  ELSE <<>>,
     sensorEvents |-> <<>>]

\* The session startSession makes.
NewSession ==
    [id |-> clock, startTime |-> clock, endTime |-> NoTime,
     status |-> "active", messages |-> <<>>, sensorEvents |-> <<>>]

\* An endSession that files the session as it is, with an end time only.
EndedSessionStatusKept(s) == [s EXCEPT !.endTime = clock]

\* { ...currentSession, status: 'ended', endTime: new Date() }
EndedSession(s) == [s EXCEPT !.status = "ended", !.endTime = clock]

\* JSON.stringify of the items of a session: the timestamp, a Date, becomes
\* its ISO string.
StringifyItems(items) ==
    [k \in 1..Len(items) |->
        [items[k] EXCEPT !.timestamp = <<"iso", items[k].timestamp>>]]

\* `.map(item => ({ ...item, timestamp: new Date(item.timestamp) }))`
ReviveItems(items) ==
    [k \in 1..Len(items) |->
        [items[k] EXCEPT !.timestamp = items[k].timestamp[2]]]

\* JSON.stringify of a session: a Date becomes its ISO string and a member
\* that is undefined is left out (<<>> stands for the missing member).
StringifySession(x) ==
    [id |-> x.id, status |-> x.status,
     messages |-> StringifyItems(x.messages),
     sensorEvents |-> StringifyItems(x.sensorEvents),
     startTime |-> <<"iso", x.startTime>>,
     endTime |-> IF x.endTime = NoTime THEN <<>> ELSE <<"iso", x.endTime>>]

\* A load that revives the start time only and gives no session an end time.
ReviveSessionWithoutEnd(j) ==
    [id |-> j.id, status |-> j.status,
     messages |-> ReviveItems(j.messages),
     sensorEvents |-> ReviveItems(j.sensorEvents),
     startTime |-> j.startTime[2],
     endTime |-> NoTime]

\* The session loadPersistedState makes of a parsed one: new Date(string),
\* and `session.endTime ? new Date(session.endTime) : undefined`.
ReviveSession(j) ==
    [id |-> j.id, status |-> j.status,
     messages |-> ReviveItems(j.messages),
     sensorEvents |-> ReviveItems(j.sensorEvents),
     startTime |-> j.startTime[2],
     endTime |-> IF j.endTime = <<>> THEN NoTime ELSE j.endTime[2]]

\* JSON.stringify of a boolean or a number, and JSON.parse of that text.
Json(v) == <<"json", v>>
Parsed(t) == t[2]

\* JSON.stringify of the AuthState: the Date of user.createdAt becomes its
\* ISO string, members that are undefined are left out.
StringifyAuth(a) ==
    [isAuthenticated |-> Json(a.isAuthenticated),
     user |-> IF a.user = <<>> THEN <<>>
              ELSE <<[id |-> a.user[1].id,
                      createdAt |-> <<"iso", a.user[1].createdAt>>]>>,
     token |-> a.token]

\* `parsed.auth || {...}` and, with a user that has a createdAt,
\* `auth.user.createdAt = new Date(auth.user.createdAt)`.
ReviveAuth(j) ==
    [isAuthenticated |-> Parsed(j.isAuthenticated),
     user |-> IF j.user = <<>> THEN <<>>
              ELSE <<[id |-> j.user[1].id,
                      createdAt |-> j.user[1].createdAt[2]]>>,
     token |-> j.token]

\* JSON.stringify of the Settings.
StringifySettings(x) ==
    [enableVoice |-> Json(x.enableVoice), ble |-> [mtu |-> Json(x.ble.mtu)]]

\* `parsed.settings || defaultSettings`: an object is truthy.
ReviveSettings(j) ==
    [enableVoice |-> Parsed(j.enableVoice), ble |-> [mtu |-> Parsed(j.ble.mtu)]]

\* `parsed.simulatorEnabled || false`
ReviveSimulatorEnabled(j) == IF Parsed(j) THEN TRUE ELSE FALSE

\* persistState up to its await: the text handed to AsyncStorage.setItem,
\* made of auth, sessions, settings and simulatorEnabled as they are when it
\* is called.
PersistTextOf(a, hist, st, sim) ==
    [auth |-> StringifyAuth(a),
     sessions |-> [i \in 1..Len(hist) |-> StringifySession(hist[i])],
     settings |-> StringifySettings(st),
     simulatorEnabled |-> Json(sim)]

\* The same for an action that has changed the history only.
PersistText(hist) == PersistTextOf(auth, hist, settings, simulatorEnabled)

\* startSession
StartSession ==
    /\ starts < MaxStarts
    /\ starts' = starts + 1
    /\ currentSession' = <<NewSession>>
    /\ UNCHANGED <<sessions, clock, itemsAdded, writes, stored, loading>>
    /\ UNCHANGED setterVars
    /\ UNCHANGED storeOthers

\* pauseSession
PauseSession ==
    /\ currentSession' = IF currentSession # <<>>
                         THEN <<[currentSession[1] EXCEPT !.status = "paused"]>>
                         ELSE currentSession
    /\ UNCHANGED <<sessions, clock, starts, itemsAdded, writes, stored, loading>>
    /\ UNCHANGED setterVars
    /\ UNCHANGED storeOthers

\* endSession, with the persistState() it calls up to the await of the write.
EndSession ==
    /\ IF currentSession # <<>>
       THEN /\ currentSession' = <<>>
            /\ sessions' = Append(sessions, EndedSession(currentSession[1]))
            /\ writes' = Append(writes, PersistText(sessions'))
       ELSE UNCHANGED <<currentSession, sessions, writes>>
    /\ UNCHANGED <<clock, starts, itemsAdded, stored, loading>>
    /\ UNCHANGED setterVars
    /\ UNCHANGED storeOthers

\* addMessage(message), with the message the caller has just made.
AddMessage(m) ==
    /\ IF currentSession # <<>>
       THEN /\ itemsAdded < MaxItems
            /\ itemsAdded' = itemsAdded + 1
            /\ currentSession' =
                   <<WithMessage(currentSession[1], NewMessage(m))>>
       ELSE UNCHANGED <<itemsAdded, currentSession>>
    /\ UNCHANGED <<sessions, clock, starts, writes, stored, loading>>
    /\ UNCHANGED setterVars
    /\ UNCHANGED storeOthers

\* addSensorEvent(event), with the event its source has just made.
AddSensorEvent(e) ==
    /\ IF currentSession # <<>>
       THEN /\ itemsAdded < MaxItems
            /\ itemsAdded' = itemsAdded + 1
            /\ currentSession' =
                   <<WithSensorEvent(currentSession[1], NewSensorEvent(e))>>
       ELSE UNCHANGED <<itemsAdded, currentSession>>
    /\ UNCHANGED <<sessions, clock, starts, writes, stored, loading>>
    /\ UNCHANGED setterVars
    /\ UNCHANGED storeOthers

\* The oldest AsyncStorage.setItem in progress settles; when it fails the
\* error is logged and the item in storage is as before.
StorageWrite(ok) ==
    /\ writes # <<>>
    /\ writes' = Tail(writes)
    /\ stored' = IF ok THEN <<Head(writes)>> ELSE stored
    /\ UNCHANGED <<currentSession, sessions, clock, starts, itemsAdded,
                   loading>>
    /\ UNCHANGED setterVars
    /\ UNCHANGED storeOthers

\* loadPersistedState is called: AsyncStorage.getItem is awaited.  One load
\* is in progress at a time.
LoadPersistedState ==
    /\ ~loading
    /\ loading' = TRUE
    /\ UNCHANGED <<currentSession, sessions, clock, starts, itemsAdded, writes,
                   stored>>
    /\ UNCHANGED setterVars
    /\ UNCHANGED storeOthers

\* The getItem of loadPersistedState settles with the item that is in
\* storage at that moment and the activation goes on: with an item, auth, the
\* history, settings and simulatorEnabled are replaced by the revived ones;
\* `ok`: getItem did not reject.
LoadRead(ok) ==
    /\ loading
    /\ loading' = FALSE
    /\ IF ok /\ stored # <<>>
       THEN /\ auth' = ReviveAuth(stored[1].auth)
            /\ sessions' = [k \in 1..Len(stored[1].sessions) |->
                               ReviveSession(stored[1].sessions[k])]
            /\ settings' = ReviveSettings(stored[1].settings)
            /\ simulatorEnabled' =
                   ReviveSimulatorEnabled(stored[1].simulatorEnabled)
       ELSE UNCHANGED <<auth, sessions, settings, simulatorEnabled>>
    /\ UNCHANGED <<currentSession, clock, starts, itemsAdded, writes, stored,
                   connectedDevice, sets>>
    /\ UNCHANGED storeOthers

\* Time passes.
ClockTick ==
    /\ clock' \in ClockValues /\ clock' > clock
    /\ UNCHANGED <<currentSession, sessions, starts, itemsAdded, writes,
                   stored, loading>>
    /\ UNCHANGED setterVars
    /\ UNCHANGED storeOthers

NextStore ==
    \/ StartSession
    \/ PauseSession
    \/ EndSession
    \/ \E m \in Messages : AddMessage(m)
    \/ \E e \in SensorEvents : AddSensorEvent(e)
    \/ \E ok \in BOOLEAN : StorageWrite(ok)
    \/ LoadPersistedState
    \/ \E ok \in BOOLEAN : LoadRead(ok)
    \/ ClockTick

\* The store while the application uses its session actions only.
SpecStore == Init /\ [][NextStore]_vars

\* What the login screen passes to setAuth: `createdAt: new Date()`.
LoggedIn ==
    [isAuthenticated |-> TRUE,
     user |-> <<[id |-> "1", createdAt |-> clock]>>,
     token |-> <<"mock-jwt">>]

\* The values the screens pass to setAuth.
AuthValues == {LoggedIn, LoggedOut}

\* The devices the pairing screen passes to setConnectedDevice.
Devices == {<<>>, <<"device-1">>}

\* The partial settings the screens pass to updateSettings.
SettingsPatches == {[enableVoice |-> FALSE], [ble |-> [mtu |-> 23]]}

\* { ...state.settings, ...newSettings }
Merged(st, patch) ==
    [k \in DOMAIN st |-> IF k \in DOMAIN patch THEN patch[k] ELSE st[k]]

\* persistState() called by a setter, up to the await of the write.
PersistState ==
    writes' = Append(writes,
                PersistTextOf(auth', sessions', settings', simulatorEnabled'))

\* setAuth(auth)
SetAuth(a) ==
    /\ sets < MaxSets
    /\ sets' = sets + 1
    /\ auth' = a
    /\ UNCHANGED <<currentSession, sessions, clock, starts, itemsAdded,
                   stored, loading, settings, simulatorEnabled,
                   connectedDevice>>
    /\ PersistState
    /\ UNCHANGED storeOthers

\* setConnectedDevice(device)
SetConnectedDevice(d) ==
    /\ sets < MaxSets
    /\ sets' = sets + 1
    /\ connectedDevice' = d
    /\ UNCHANGED <<currentSession, sessions, clock, starts, itemsAdded,
                   stored, loading, auth, settings, simulatorEnabled>>
    /\ PersistState
    /\ UNCHANGED storeOthers

\* updateSettings(newSettings)
UpdateSettings(patch) ==
    /\ sets < MaxSets
    /\ sets' = sets + 1
    /\ settings' = Merged(settings, patch)
    /\ UNCHANGED <<currentSession, sessions, clock, starts, itemsAdded,
                   stored, loading, auth, simulatorEnabled, connectedDevice>>
    /\ PersistState
    /\ UNCHANGED storeOthers

\* setSimulatorEnabled(enabled)
SetSimulatorEnabled(enabled) ==
    /\ sets < MaxSets
    /\ sets' = sets + 1
    /\ simulatorEnabled' = enabled
    /\ UNCHANGED <<currentSession, sessions, clock, starts, itemsAdded,
                   stored, loading, auth, settings, connectedDevice>>
    /\ PersistState
    /\ UNCHANGED storeOthers

NextPersist ==
    \/ NextStore
    \/ \E a \in AuthValues : SetAuth(a)
    \/ \E d \in Devices : SetConnectedDevice(d)
    \/ \E patch \in SettingsPatches : UpdateSettings(patch)
    \/ \E enabled \in BOOLEAN : SetSimulatorEnabled(enabled)

\* What earlier runs of the application have left in storage: the user had
\* logged in and had ended one session that holds one message.
EarlierState ==
    PersistTextOf(
        [isAuthenticated |-> TRUE,
         user |-> <<[id |-> "1", createdAt |-> 0]>>,
         token |-> <<"mock-jwt">>],
        << [id |-> 0, startTime |-> 0, endTime |-> 0, status |-> "ended",
            messages |-> <<[content |-> "m1", timestamp |-> 0]>>,
            sensorEvents |-> <<>>] >>,
        defaultSettings, FALSE)

\* A later run of the application: storage holds what the earlier runs have
\* persisted.  The earlier runs have made all but one of the startSession
\* calls and of the additions that the bounds allow, so that this run starts
\* one session and adds one item, whatever the bounds are.
InitPersist ==
    /\ InitProgram
    /\ nextId = 1
    /\ storedNotifications = <<>>
    /\ starts = MaxStarts - 1
    /\ itemsAdded = MaxItems - 1
    /\ stored = <<EarlierState>>

\* The store with all the actions that persist, in a later run.
SpecPersist == InitPersist /\ [][NextPersist]_vars

\* ----------------------------------------------------- NotificationService

\* JSON.stringify of the list: a Date becomes its ISO string.
StringifyNotifications(list) ==
    [i \in 1..Len(list) |->
        [id |-> list[i].id, read |-> list[i].read,
         timestamp |-> <<"iso", list[i].timestamp>>]]

\* `parsed.map(n => ({ ...n, timestamp: new Date(n.timestamp) }))`
ReviveNotifications(text) ==
    [i \in 1..Len(text) |->
        [id |-> text[i].id, read |-> text[i].read,
         timestamp |-> text[i].timestamp[2]]]

\* The list a run that added k notifications and read none of them has left
\* in memory: the newest, k, first.
ListOf(k) ==
    [i \in 1..k |-> [id |-> k + 1 - i, timestamp |-> k + 1 - i, read |-> FALSE]]

\* How many notifications an earlier run of the application has left in
\* storage.
StoredLengths == {0, 48}

\* A later run of the application: storage holds what an earlier run saved.
InitNotifications ==
    /\ InitProgram
    /\ \E k \in StoredLengths :
          /\ nextId = k + 1
          /\ storedNotifications =
                 IF k = 0 THEN <<>> ELSE <<StringifyNotifications(ListOf(k))>>
    /\ starts = 0
    /\ itemsAdded = 0
    /\ stored = <<>>

\* An addNotification that keeps every notification.
Uncapped(list) == list

\* `if (length > 50) this.notifications = this.notifications.slice(0, 50)`
Capped(list) ==
    IF Len(list) > NotificationCap THEN SubSeq(list, 1, NotificationCap)
    ELSE list

\* The notification the send* methods make: id and timestamp are the time.
NewNotification == [id |-> nextId, timestamp |-> nextId, read |-> FALSE]

\* saveNotifications up to its await: the text handed to setItem.
SaveNotifications(list) == Append(saves, StringifyNotifications(list))

\* send*Notification -> addNotification, up to `await saveNotifications()`.
AddNotification ==
    /\ added < MaxAdds /\ Len(saves) < MaxSaves
    /\ added' = added + 1
    /\ nextId' = nextId + 1
    /\ notifications' = Capped(<<NewNotification>> \o notifications)
    /\ saves' = SaveNotifications(notifications')
    /\ UNCHANGED <<edits, storedNotifications, initialized,
                   loadingNotifications>>
    /\ UNCHANGED listenerVars
    /\ UNCHANGED notifOthers

\* The index of the first notification with this id, 0 if there is none.
Find(id) ==
    IF \E i \in 1..Len(notifications) : notifications[i].id = id
    THEN CHOOSE i \in 1..Len(notifications) :
            /\ notifications[i].id = id
            /\ \A j \in 1..(i - 1) : notifications[j].id # id
    ELSE 0

\* The ids the application passes to markAsRead: that of the newest or of
\* the oldest notification of the list, or one that is not in the list.
IdsToMark ==
    {0} \cup (IF notifications = <<>> THEN {}
              ELSE {notifications[1].id,
                    notifications[Len(notifications)].id})

\* markAsRead(notificationId), up to the await.
MarkAsRead(id) ==
    /\ edits < MaxEdits /\ Len(saves) < MaxSaves
    /\ edits' = edits + 1
    /\ IF Find(id) # 0
       THEN /\ notifications' =
                   [notifications EXCEPT ![Find(id)].read = TRUE]
            /\ saves' = SaveNotifications(notifications')
       ELSE UNCHANGED <<notifications, saves>>
    /\ UNCHANGED <<nextId, added, storedNotifications, initialized,
                   loadingNotifications>>
    /\ UNCHANGED listenerVars
    /\ UNCHANGED notifOthers

\* markAllAsRead(), up to the await.
MarkAllAsRead ==
    /\ edits < MaxEdits /\ Len(saves) < MaxSaves
    /\ edits' = edits + 1
    /\ notifications' =
           [i \in 1..Len(notifications) |->
               [notifications[i] EXCEPT !.read = TRUE]]
    /\ saves' = SaveNotifications(notifications')
    /\ UNCHANGED <<nextId, added, storedNotifications, initialized,
                   loadingNotifications>>
    /\ UNCHANGED listenerVars
    /\ UNCHANGED notifOthers

\* clearAllNotifications(), up to the await.
ClearAllNotifications ==
    /\ edits < MaxEdits /\ Len(saves) < MaxSaves
    /\ edits' = edits + 1
    /\ notifications' = <<>>
    /\ saves' = SaveNotifications(notifications')
    /\ UNCHANGED <<nextId, added, storedNotifications, initialized,
                   loadingNotifications>>
    /\ UNCHANGED listenerVars
    /\ UNCHANGED notifOthers

\* The functions the application subscribes.
Listeners == {"a", "b"}

\* What a listener does when it is invoked: it returns, it throws, or it
\* calls its own unsubscribe function and returns.
ListenerActs == {"return", "throw", "unsubscribe"}

\* What each subscribed listener does in one run of notifyListeners.
Behaviours ==
    [{listeners[k] : k \in 1..Len(listeners)} -> ListenerActs]

\* The unsubscribe function of listener l:
\* `index = listeners.indexOf(listener); if (index > -1) splice(index, 1)`.
Splice(ls, l) ==
    IF \E k \in 1..Len(ls) : ls[k] = l
    THEN LET index == CHOOSE k \in 1..Len(ls) :
                         ls[k] = l /\ \A j \in 1..(k - 1) : ls[j] # l
         IN  SubSeq(ls, 1, index - 1) \o SubSeq(ls, index + 1, Len(ls))
    ELSE ls

\* `this.listeners.forEach(listener => listener([...notifications]))` from
\* position k on: forEach visits the positions of the array as it is when
\* it gets to them, so a splice made by a listener moves the next listener
\* to the position just visited; a throw ends the run.
RECURSIVE ForEach(_, _, _, _)
ForEach(ls, k, by, beh) ==
    IF k > Len(ls) THEN [listeners |-> ls, by |-> by]
    ELSE CASE beh[ls[k]] = "throw" ->
                [listeners |-> ls, by |-> Append(by, ls[k])]
           [] beh[ls[k]] = "unsubscribe" ->
                ForEach(Splice(ls, ls[k]), k + 1, Append(by, ls[k]), beh)
           [] OTHER -> ForEach(ls, k + 1, Append(by, ls[k]), beh)

\* notifyListeners(): the listeners it leaves subscribed and what it
\* invoked, each listener with a copy of the list (nothing is passed when
\* there is no listener).
NotifyListeners(beh) ==
    /\ listeners' = ForEach(listeners, 1, <<>>, beh).listeners
    /\ notified' = [by |-> ForEach(listeners, 1, <<>>, beh).by,
                    list |-> IF listeners = <<>> THEN <<>>
                             ELSE notifications']
    /\ UNCHANGED <<unsubscribeFns, subscribes>>

\* subscribeToNotifications(listener): the application subscribes a function
\* that is not subscribed at the moment, and gets its unsubscribe function.
SubscribeToNotifications(l) ==
    /\ subscribes < MaxSubscribes
    /\ \A k \in 1..Len(listeners) : listeners[k] # l
    /\ subscribes' = subscribes + 1
    /\ listeners' = Append(listeners, l)
    /\ unsubscribeFns' = unsubscribeFns \cup {l}
    /\ UNCHANGED <<notifications, nextId, added, edits, saves,
                   storedNotifications, initialized, loadingNotifications,
                   notified>>
    /\ UNCHANGED notifOthers

\* The unsubscribe function of listener l is called, outside of a
\* notification.
Unsubscribe(l) ==
    /\ l \in unsubscribeFns
    /\ listeners' = Splice(listeners, l)
    /\ UNCHANGED <<notifications, nextId, added, edits, saves,
                   storedNotifications, initialized, loadingNotifications,
                   unsubscribeFns, subscribes, notified>>
    /\ UNCHANGED notifOthers

\* The oldest setItem in progress settles (a failure is logged) and the
\* method that awaited it goes on to notifyListeners().
SaveDone(ok, beh) ==
    /\ saves # <<>>
    /\ saves' = Tail(saves)
    /\ storedNotifications' = IF ok THEN <<Head(saves)>>
                              ELSE storedNotifications
    /\ UNCHANGED <<notifications, nextId, added, edits, initialized,
                   loadingNotifications>>
    /\ NotifyListeners(beh)
    /\ UNCHANGED notifOthers

\* initialize(), called once when the application starts:
\* loadStoredNotifications up to `await AsyncStorage.getItem`.
Initialize ==
    /\ ~initialized
    /\ initialized' = TRUE
    /\ loadingNotifications' = TRUE
    /\ UNCHANGED <<notifications, nextId, added, edits, saves,
                   storedNotifications>>
    /\ UNCHANGED listenerVars
    /\ UNCHANGED notifOthers

\* getItem settles with the item in storage and loadStoredNotifications goes
\* on: with an item, the list is replaced by the revived one and the
\* listeners are notified.
LoadStoredNotifications(ok, beh) ==
    /\ loadingNotifications
    /\ loadingNotifications' = FALSE
    /\ IF ok /\ storedNotifications # <<>>
       THEN /\ notifications' = ReviveNotifications(storedNotifications[1])
            /\ NotifyListeners(beh)
       ELSE UNCHANGED <<notifications, listenerVars>>
    /\ UNCHANGED <<nextId, added, edits, saves, storedNotifications,
                   initialized>>
    /\ UNCHANGED notifOthers

NextNotifications ==
    \/ AddNotification
    \/ \E id \in IdsToMark : MarkAsRead(id)
    \/ MarkAllAsRead
    \/ ClearAllNotifications
    \/ \E ok \in BOOLEAN, beh \in Behaviours : SaveDone(ok, beh)
    \/ Initialize
    \/ \E ok \in BOOLEAN, beh \in Behaviours :
          LoadStoredNotifications(ok, beh)

\* The service while no component has subscribed to it.
SpecNotifications == InitNotifications /\ [][NextNotifications]_vars

NextListeners ==
    \/ NextNotifications
    \/ \E l \in Listeners : SubscribeToNotifications(l)
    \/ \E l \in Listeners : Unsubscribe(l)

\* The service with the components that subscribe to it, in the first run
\* of the application.
SpecListeners == Init /\ [][NextListeners]_vars

\* ------------------------------------------------------------ OpenAIService

\* The last user message, given by the keywords it contains.
UserMessages == {{}, {"sleep"}, {"sleep", "health"}}

\* getDemoResponse: the first keyword group, in this order, that the message
\* contains selects the canned response.
GetDemoResponse(msg) ==
    IF "health" \in msg THEN "demo: health"
    ELSE IF "workout" \in msg THEN "demo: workout"
    ELSE IF "stress" \in msg THEN "demo: stress"
    ELSE IF "sleep" \in msg THEN "demo: sleep"
    ELSE IF "activity" \in msg THEN "demo: activity"
    ELSE "demo: default"

\* How the fetch of checkBackendAvailability or createChatCompletion ends: a
\* 2xx response with a body stream or without one, another status, or a
\* rejection.
FetchOutcomes == {"ok body", "ok", "non2xx", "network"}

\* The fetch of checkBackendAvailability, begun by the constructor, settles.
CheckBackendAvailability(outcome) ==
    /\ checking
    /\ checking' = FALSE
    /\ useDemoMode' = (outcome \in {"non2xx", "network"})
    /\ UNCHANGED chats
    /\ UNCHANGED chatOthers

\* The call goes on in handleDemoMode.
ToDemo(c) == [c EXCEPT !.stage = "demo"]
\* The promise of createChatCompletion is resolved with `v`.
Resolved(c, v) == [c EXCEPT !.stage = "done", !.result = v]
\* The promise of createChatCompletion is rejected.
Rejected(c) == [c EXCEPT !.stage = "done", !.result = "rejected"]

\* createChatCompletion(messages, model, onStream?) up to its first await.
\* `cb`: onStream was passed; `cbThrows`: it throws when it is invoked.
CreateChatCompletion(msg, cb, cbThrows) ==
    /\ Len(chats) < MaxChats
    /\ cbThrows => cb
    /\ chats' = Append(chats,
                   [msg |-> msg, onStream |-> cb, throws |-> cbThrows,
                    stage |-> IF useDemoMode THEN "demo" ELSE "fetch",
                    reads |-> 0, result |-> "none"])
    /\ UNCHANGED <<useDemoMode, checking>>
    /\ UNCHANGED chatOthers

\* `await fetch(...)` of createChatCompletion settles: the catch block and
\* the `!response.ok` branch go to handleDemoMode, `onStream && response.body`
\* returns the promise of handleStream, anything else awaits response.json().
AfterFetch(c, outcome) ==
    CASE outcome \in {"network", "non2xx"} -> ToDemo(c)
      [] outcome = "ok body" /\ c.onStream -> [c EXCEPT !.stage = "stream"]
      [] OTHER -> [c EXCEPT !.stage = "json"]

ChatFetchDone(i, outcome) ==
    /\ i \in 1..Len(chats) /\ chats[i].stage = "fetch"
    /\ chats' = [chats EXCEPT ![i] = AfterFetch(chats[i], outcome)]
    /\ UNCHANGED <<useDemoMode, checking>>
    /\ UNCHANGED chatOthers

\* What response.json() gives: an object with content, one without, or a
\* rejection (the body is not JSON).
JsonOutcomes == {"content", "no content", "bad json"}

\* `await response.json()` settles; a missing content throws inside the try
\* block, whose catch goes to handleDemoMode.
ChatJsonDone(i, outcome) ==
    /\ i \in 1..Len(chats) /\ chats[i].stage = "json"
    /\ chats' = [chats EXCEPT ![i] =
                    IF outcome = "content" THEN Resolved(@, "content")
                    ELSE ToDemo(@)]
    /\ UNCHANGED <<useDemoMode, checking>>
    /\ UNCHANGED chatOthers

\* What reader.read() gives in handleStream: a chunk with content lines, a
\* chunk with the [DONE] line, the end of the stream, or a rejection.
ReadOutcomes == {"data", "[DONE]", "end", "error"}

\* `await reader.read()` of handleStream settles.  An exception of onStream
\* for a content line is swallowed with the parse errors; one for the [DONE]
\* line and a rejected read leave handleStream through its `finally`.  The
\* promise createChatCompletion returned follows that of handleStream: it was
\* returned without an await, so the catch block is no longer in play.
ChatStreamRead(i, outcome) ==
    /\ i \in 1..Len(chats) /\ chats[i].stage = "stream"
    /\ LET c == chats[i]
           failed == outcome = "error" \/ (outcome = "[DONE]" /\ c.throws)
       IN  /\ outcome \in {"data", "[DONE]"} => c.reads < MaxReads
           /\ chats' = [chats EXCEPT ![i] =
                 IF failed
                 THEN Rejected(c)
                 ELSE IF outcome = "end" THEN Resolved(c, "content")
                 ELSE [c EXCEPT !.reads = c.reads + 1]]
    /\ UNCHANGED <<useDemoMode, checking>>
    /\ UNCHANGED chatOthers

\* handleDemoMode runs to its end: with onStream, the words of the response
\* are passed to it one by one, and an exception of it rejects the promise.
ChatDemoDone(i) ==
    /\ i \in 1..Len(chats) /\ chats[i].stage = "demo"
    /\ chats' = [chats EXCEPT ![i] =
                    IF @.onStream /\ @.throws THEN Rejected(@)
                    ELSE Resolved(@, GetDemoResponse(@.msg))]
    /\ UNCHANGED <<useDemoMode, checking>>
    /\ UNCHANGED chatOthers

NextChat ==
    \/ \E outcome \in FetchOutcomes : CheckBackendAvailability(outcome)
    \/ \E msg \in UserMessages, cb, cbThrows \in BOOLEAN :
          CreateChatCompletion(msg, cb, cbThrows)
    \/ \E i \in 1..MaxChats, outcome \in FetchOutcomes :
          ChatFetchDone(i, outcome)
    \/ \E i \in 1..MaxChats, outcome \in JsonOutcomes :
          ChatJsonDone(i, outcome)
    \/ \E i \in 1..MaxChats, outcome \in ReadOutcomes :
          ChatStreamRead(i, outcome)
    \/ \E i \in 1..MaxChats : ChatDemoDone(i)

SpecChat == Init /\ [][NextChat]_vars

\* -------------------------------------------------------------- AuthService

\* The email argument of signUp, as the user typed it.
Emails == {"demo@example.com", "Demo@Example.com", "ann@x.com", "Ann@X.com",
           "bob@x.com"}

\* String.prototype.toLowerCase on the emails above.
ToLowerCase(e) ==
    CASE e = "Demo@Example.com" -> "demo@example.com"
      [] e = "Ann@X.com" -> "ann@x.com"
      [] OTHER -> e

\* mockUsers.find(u => u.email === email): the comparison without the
\* toLowerCase calls.
FindUserCaseSensitive(users, email) ==
    {k \in 1..Len(users) : users[k].email = email}

\* mockUsers.find(u => u.email.toLowerCase() === email.toLowerCase()): the
\* positions of the matching users (find yields the first, the code tests
\* only whether there is one).
FindUser(users, email) ==
    {k \in 1..Len(users) : ToLowerCase(users[k].email) = ToLowerCase(email)}

\* const newUser = { id: (mockUsers.length + 1).toString(),
\*                   email: email.toLowerCase(), ... }
NewUser(users, email) ==
    [id |-> ToString(Len(users) + 1), email |-> ToLowerCase(email)]

\* signUp(email, password, name) is called: it runs to its first await, the
\* one-second delay.
SignUp(email) ==
    /\ Len(signUps) < MaxSignUps
    /\ signUps' = Append(signUps,
                    [email |-> email, stage |-> "delay", result |-> "none",
                     id |-> "none"])
    /\ UNCHANGED <<mockUsers, authToken>>
    /\ UNCHANGED authOthers

\* The delay of call i is over (the timers of equal delay fire in the order
\* of the calls): the check and the push run without an await between them,
\* then the call awaits AsyncStorage.setItem.
SignUpAfterDelay(i) ==
    /\ i \in 1..Len(signUps) /\ signUps[i].stage = "delay"
    /\ \A j \in 1..(i - 1) : signUps[j].stage # "delay"
    /\ IF FindUser(mockUsers, signUps[i].email) # {}
       THEN /\ signUps' = [signUps EXCEPT ![i].stage = "done",
                                          ![i].result = "exists"]
            /\ UNCHANGED mockUsers
       ELSE /\ mockUsers' = Append(mockUsers,
                                   NewUser(mockUsers, signUps[i].email))
            /\ signUps' = [signUps EXCEPT
                             ![i].stage = "store",
                             ![i].id = NewUser(mockUsers, signUps[i].email).id]
    /\ UNCHANGED authToken
    /\ UNCHANGED authOthers

\* AsyncStorage.setItem('@auth_token', token) of call i settles: the call
\* returns success, or the rejection of setItem rejects the call.
SignUpStored(i, ok) ==
    /\ i \in 1..Len(signUps) /\ signUps[i].stage = "store"
    /\ signUps' = [signUps EXCEPT
                     ![i].stage = "done",
                     ![i].result = IF ok THEN "success" ELSE "rejected"]
    /\ authToken' = IF ok THEN <<signUps[i].id>> ELSE authToken
    /\ UNCHANGED mockUsers
    /\ UNCHANGED authOthers

NextAuth ==
    \/ \E email \in Emails : SignUp(email)
    \/ \E i \in 1..MaxSignUps : SignUpAfterDelay(i)
    \/ \E i \in 1..MaxSignUps, ok \in BOOLEAN : SignUpStored(i, ok)

SpecAuth == Init /\ [][NextAuth]_vars

\* ================================================================= claims

PollFetches == {r \in reqs : r.owner = "poll"}

\* C1: at every moment at most one getStreamData fetch issued by the poller
\* is outstanding, whatever the interval and the latencies.
C1_OneFetchOutstanding == Cardinality(PollFetches) <= 1

\* The poller is in its third or a later fetch, issued by a timer.
C1_Witness == pollIssued >= 3 /\ PollFetches # {} /\ interval = 0

\* C2: once the stop handle has been called the poller issues no further
\* fetch, whether stop ran during a fetch or while the timer was pending.
C2_NoFetchAfterStop == stopAt # -1 => pollIssued = stopAt

\* stop was called while the timer of the next poll was pending, and that
\* timer has fired since: nothing is pending and time has passed since the
\* last fetch settled.
C2_Witness ==
    /\ stopAt # -1 /\ ~pollDied
    /\ reqs = {} /\ pollTimers = {} /\ httpTimers = {}
    /\ lastDoneAt >= 0 /\ now > lastDoneAt

\* C8: checkHealth never throws; it returns the parsed status for a 2xx
\* response with a valid JSON body and null in every other case.
C8_HealthNeverThrows ==
    lastCall.api = "health" =>
        /\ lastCall.kind = "return"
        /\ lastCall.cause = "ok" => lastCall.val = "value"
        /\ lastCall.cause \in {"non2xx", "network", "timeout", "badjson"}
               => lastCall.val = "null"

\* A checkHealth call has ended by its timeout.
C8_Witness ==
    lastCall.api = "health" /\ lastCall.cause = "timeout" /\ lastCall.val = "null"

\* The step in which the poller's fetch `r` fails: a non-2xx status, a network
\* error or the timeout.
PollFetchFails(r) ==
    /\ r.owner = "poll"
    /\ \/ ReqNetworkFail(r)
       \/ \E s \in Statuses : ~Ok(s) /\ ReqRespond(r, s)
       \/ \E t \in httpTimers : t.id = r.id /\ ReqTimeout(t)

C10_IntervalAfterCompletion ==
    /\ started => pollIssued >= 1
    /\ pollIssued = 1 => lastIssueAt = 0
    /\ pollIssued >= 2 => lastIssueAt = issueBase + interval
    /\ (interval = 1000 /\ lats = {1500} /\ now <= 10000) => pollIssued <= 6

\* The scenario of the claim after 10 s.
C10_Witness ==
    interval = 1000 /\ lats = {1500} /\ now = 10000 /\ pollIssued = 5

\* C3: once disconnectWebSocket has returned the client makes no connection
\* attempt (until the application calls connectWebSocket again), also when a
\* reconnect timer was pending at the time of the call.
C3_DisconnectSuppressesReconnect ==
    [][(disconnected /\ disconnected') => created' = created]_vars

\* C4: at most one reconnect timer is pending in every reachable state.
C4_AtMostOneReconnectTimer == TimerCount <= 1

\* C5: without an open event the successive reconnects wait 1000, 2000, 4000,
\* 8000 and 16000 ms, and the stored delay never exceeds 30000 ms.
C5_BackoffSequence ==
    LET expected == <<1000, 2000, 4000, 8000, 16000>>
    IN  /\ Len(waits) <= Len(expected)
        /\ \A k \in 1..Len(waits) : waits[k] = expected[k]
        /\ reconnectDelay <= 30000

\* Five reconnects have been scheduled in a row by one connectWebSocket call.
C5_Witness ==
    /\ waits = <<1000, 2000, 4000, 8000, 16000>>
    /\ reconnectDelay = 30000 /\ userConnects = 1

\* C6: after 5 reconnects scheduled without an open event in between, a close
\* event schedules no 6th: the close callback is invoked and nothing else, and
\* with no socket and no timer left only a connectWebSocket call of the
\* application makes a new socket.
C6_GivesUpAfterFive ==
    /\ [](Len(waits) <= 5)
    /\ [][\A s \in socks, closeThrows \in BOOLEAN :
            (Len(waits) = 5 /\ OnClose(s, closeThrows)) =>
                /\ wsTimers' = wsTimers
                /\ reconnectAttempts' = reconnectAttempts
                /\ invoked' = IF hasOnClose THEN <<"onClose">> ELSE <<>>]_vars
    /\ [][(socks = {} /\ TimerCount = 0) =>
            (created' = created \/ userConnects' # userConnects)]_vars

\* The socket of the 5th reconnect has closed and the client has given up.
C6_Witness ==
    /\ Len(waits) = 5 /\ created = 6 /\ userConnects = 1 /\ ~disconnected
    /\ socks = {} /\ TimerCount = 0 /\ invoked = <<"onClose">>

C11_TimeoutAborts ==
    /\ [][\A t \in httpTimers, r \in reqs :
            (r.id = t.id /\ r.phase = "fetch" /\ ReqTimeout(t)) =>
                /\ now = t.at
                /\ \A q \in reqs' : q.id # r.id
                /\ lastFetch' = "AbortError"
                /\ (r.owner = "call" /\ r.api # "health") =>
                       (lastCall'.kind = "throw" /\ lastCall'.val = "AbortError")
         ]_vars
    /\ [][\A r \in reqs : ReqNetworkFail(r) =>
            (lastFetch' = "NetworkError" /\ lastFetch' # "AbortError")]_vars
    /\ [](lastCall.val = "AbortError" => lastCall.cause = "timeout")

\* A call whose server never answered has failed with the error of the abort
\* when its timer fired, 10 s after it was made.
C11_Witness ==
    /\ lastFetch = "AbortError" /\ now = TIMEOUT
    /\ lastCall.cause = "timeout" /\ lastCall.kind = "throw"
    /\ lastCall.val = "AbortError"

\* C12: a timeout timer is pending only while the fetchWithTimeout call that
\* started it is still waiting for fetch(): once the call has returned the
\* response (the request goes on to read the body) or has thrown (the request
\* is gone), its timer is no longer pending.
C12_NoTimerAfterCompletion ==
    \A t \in httpTimers : \E r \in reqs : r.id = t.id /\ r.phase = "fetch"

\* A fetchWithTimeout call has returned its response, another one has thrown,
\* and no timer is pending.
C12_Witness ==
    /\ \E r \in reqs : r.phase = "json"
    /\ lastCall.cause = "network" /\ issued = 2
    /\ httpTimers = {}

\* The effect of a message event on everything but the callbacks: the socket
\* stays as it is, and so do the reconnect counter, the delay and the timers.
MessageKeepsConnection ==
    /\ socks' = socks /\ ws' = ws
    /\ reconnectAttempts' = reconnectAttempts
    /\ reconnectDelay' = reconnectDelay
    /\ wsTimers' = wsTimers

\* C13 as stated: every frame that is valid JSON of type 'stream_data' is
\* delivered to the data callback exactly once and no other frame is, and the
\* connection and the reconnect state are untouched.
C13_StreamDataDelivered ==
    [][\A s \in socks, f \in Frames : OnMessage(s, f) =>
          /\ invoked' = IF f \in {"stream_data", "stream_nodata"}
                        THEN <<"onMessage">> ELSE <<>>
          /\ MessageKeepsConnection]_vars

\* C13, amended: the data callback is invoked exactly once for a frame that
\* is valid JSON of type 'stream_data' with a data member that is present
\* and truthy, and not at all for any other frame (stream_data without data,
\* another type, JSON without properties, malformed text); in every case the
\* connection and the reconnect state are untouched.
C13_StreamDataWithDataDelivered ==
    [][\A s \in socks :
          /\ OnMessage(s, "stream_data") =>
                (invoked' = <<"onMessage">> /\ MessageKeepsConnection)
          /\ \A f \in Frames \ {"stream_data"} : OnMessage(s, f) =>
                (invoked' = <<>> /\ MessageKeepsConnection)]_vars

\* A frame has been delivered on an open socket while a reconnect of another
\* socket of the client is pending with the counter at 1.
C13_Witness ==
    /\ invoked = <<"onMessage">>
    /\ \E s \in socks : s.state = "OPEN"
    /\ reconnectAttempts = 1 /\ reconnectDelay = 2000 /\ TimerCount = 1

\* C14: an error event invokes the error callback, if one was supplied, and
\* has no other effect: the socket is not closed, no reconnect is scheduled
\* and the counter and the delay are unchanged.  The number of pending
\* reconnect timers grows only in a close event.
C14_ErrorOnlyNotifies ==
    /\ [][\A s \in socks : OnError(s) =>
            /\ invoked' = IF hasWsOnError THEN <<"onError">> ELSE <<>>
            /\ socks' = socks /\ ws' = ws
            /\ reconnectAttempts' = reconnectAttempts
            /\ reconnectDelay' = reconnectDelay
            /\ wsTimers' = wsTimers]_vars
    /\ [][TimerCount' > TimerCount =>
            \E s \in socks, closeThrows \in BOOLEAN : OnClose(s, closeThrows)
         ]_vars

\* The error callback has run for an error event on a socket that is still
\* there, with no reconnect pending.
C14_Witness ==
    /\ invoked = <<"onError">>
    /\ \E s \in socks : s.state = "OPEN"
    /\ TimerCount = 0 /\ reconnectAttempts = 0

\* The methods of C15: all but checkHealth.
OneShotApis == Apis \ {"health"}

\* C15: a one-shot call issues exactly one HTTP request; a non-2xx response
\* makes it throw the error that carries the status text, a network failure
\* or a timeout makes it throw that failure's error; whichever way it ends,
\* no further request is issued for it: requests are issued by calls only.
C15_OneShotNoRetry ==
    /\ [][\A api \in OneShotApis, lat \in CallLatencies : Call(api, lat) =>
            /\ issued' = issued + 1
            /\ Cardinality(reqs') = Cardinality(reqs) + 1]_vars
    /\ [][\A r \in reqs, st \in Statuses :
            (r.api \in OneShotApis /\ ~Ok(st) /\ ReqRespond(r, st)) =>
                /\ lastCall' = [api |-> r.api, cause |-> "non2xx",
                                kind |-> "throw", val |-> "StatusError",
                                text |-> st]
                /\ issued' = issued /\ reqs' = reqs \ {r}]_vars
    /\ [][\A r \in reqs :
            (r.api \in OneShotApis /\ ReqNetworkFail(r)) =>
                /\ lastCall'.kind = "throw" /\ lastCall'.val = "NetworkError"
                /\ issued' = issued /\ reqs' = reqs \ {r}]_vars
    /\ [][\A r \in reqs, t \in httpTimers :
            (r.api \in OneShotApis /\ r.id = t.id /\ ReqTimeout(t)) =>
                /\ lastCall'.kind = "throw" /\ lastCall'.val = "AbortError"
                /\ issued' = issued /\ reqs' = reqs \ {r}]_vars
    /\ [][issued' # issued =>
            \E api \in Apis, lat \in CallLatencies : Call(api, lat)]_vars

\* getSession was answered 404 and has thrown the error with that status
\* text; its one request is the only one issued.
C15_Witness ==
    /\ lastCall = [api |-> "getSession", cause |-> "non2xx", kind |-> "throw",
                   val |-> "StatusError", text |-> 404]
    /\ issued = 1 /\ reqs = {}

\* C16 as stated: stop leaves a fetch in flight alone and its result still
\* reaches the callbacks, and no more than one callback invocation of the
\* poller happens after stop.
C16_OneCallbackAfterStop == afterStop[1] + afterStop[2] <= 1

\* C16, amended: stop aborts nothing (the requests and their timers are as
\* before); the fetch in flight runs to completion and its result is passed
\* to the data callback, or its failure to the error callback if one was
\* supplied; after stop each of the two callbacks is invoked at most once,
\* the error callback after the data callback when the latter throws.
C16_LateResultDelivered ==
    /\ [][Stop => (reqs' = reqs /\ httpTimers' = httpTimers)]_vars
    /\ [][\A r \in reqs :
            (r.owner = "poll" /\ ~isPolling /\ ReqJson(r, TRUE)) =>
                (dataCalls' = dataCalls + 1 /\ afterStop'[1] = 1)]_vars
    /\ [][\A r \in reqs : (~isPolling /\ PollFetchFails(r)) =>
            /\ errorCalls' = errorCalls + (IF hasOnError THEN 1 ELSE 0)
            /\ afterStop' = <<0, IF hasOnError THEN 1 ELSE 0>>]_vars
    /\ [](afterStop[1] <= 1 /\ afterStop[2] <= 1)
    /\ [](stopAt # -1 => pollIssued = stopAt)

\* stop was called during the third fetch, which then delivered its result:
\* the data callback threw and the error callback was invoked as well.
C16_Witness ==
    /\ stopAt = 3 /\ afterStop = <<1, 1>> /\ reqs = {} /\ ~isPolling
    /\ dataCalls = 3

\* The pollers of LiveDataScreen that have not been stopped.
RunningPollers == {k \in 1..Len(screenPollers) : screenPollers[k].isPolling}

\* C17: LiveDataScreen never has two pollers that are not stopped; a poller
\* is running only while the screen is mounted with auto-refresh on and the
\* backend connected, and then it is the one whose stop handle the ref holds.
C17_OnePollerOnScreen ==
    /\ Cardinality(RunningPollers) <= 1
    /\ RunningPollers # {} =>
           /\ mounted = "yes" /\ autoRefresh /\ isBackendConnected
           /\ RunningPollers = {pollingStopFn}
    /\ (mounted = "yes" /\ autoRefresh /\ isBackendConnected) =>
           RunningPollers # {}

\* The screen was unmounted after its third poller was started by a second
\* resume, and no poller is left running.
C17_Witness ==
    /\ mounted = "gone" /\ Len(screenPollers) = 3 /\ autoRefresh
    /\ isBackendConnected /\ RunningPollers = {}

\* C18: endSession with a current session appends that session, with status
\* 'ended' and an end time and otherwise as it was, to the end of the history
\* and sets the current session to null; without a current session it
\* changes nothing.  So the current session is never 'ended' and every
\* session of the history is.
C18_EndSessionFiles ==
    /\ [][(currentSession # <<>> /\ EndSession) =>
            LET c == currentSession[1]
                e == sessions'[Len(sessions')]
            IN  /\ currentSession' = <<>>
                /\ Len(sessions') = Len(sessions) + 1
                /\ SubSeq(sessions', 1, Len(sessions)) = sessions
                /\ e.status = "ended" /\ e.endTime # NoTime
                /\ e.endTime = clock
                /\ e.id = c.id /\ e.startTime = c.startTime
                /\ e.messages = c.messages
                /\ e.sensorEvents = c.sensorEvents]_vars
    /\ [][(currentSession = <<>> /\ EndSession) =>
            UNCHANGED <<currentSession, sessions, writes, stored>>]_vars
    /\ [](currentSession # <<>> => currentSession[1].status # "ended")
    /\ [](\A i \in 1..Len(sessions) :
            sessions[i].status = "ended" /\ sessions[i].endTime # NoTime)

\* A paused session with a message has been ended after another one: it is
\* the last of the history and there is no current session.
C18_Witness ==
    /\ currentSession = <<>> /\ Len(sessions) = 2
    /\ sessions[2].status = "ended"
    /\ Len(sessions[2].messages) = 1 /\ sessions[2].messages[1].content = "m2"
    /\ sessions[2].endTime = 1 /\ sessions[2].startTime = 0

\* C19: the in-memory list never holds more than 50 notifications and is
\* ordered newest first; an add puts the new notification at the head and
\* keeps the others in order, dropping the last (oldest) one of a list of 50.
C19_FiftyNewestFirst ==
    /\ [](Len(notifications) <= 50)
    /\ [](\A i, j \in 1..Len(notifications) :
            i < j => notifications[i].timestamp > notifications[j].timestamp)
    /\ [][AddNotification =>
            /\ notifications'[1] = NewNotification
            /\ Len(notifications') =
                   IF Len(notifications) = 50 THEN 50
                   ELSE Len(notifications) + 1
            /\ \A i \in 2..Len(notifications') :
                   notifications'[i] = notifications[i - 1]]_vars

\* Three notifications were added to the 48 of an earlier run: the list
\* holds the 50 newest, and the oldest one, 1, is gone.
C19_Witness ==
    /\ Len(notifications) = 50 /\ added = 3
    /\ notifications[1].id = 51 /\ notifications[50].id = 2

\* C20: a createChatCompletion call whose stream callback does not throw
\* never rejects; whenever it does not return the content the backend sent,
\* it returns the canned demo response for its message.
C20_ChatNeverRejects ==
    \A i \in 1..Len(chats) :
        ~chats[i].throws =>
            /\ chats[i].result # "rejected"
            /\ chats[i].stage = "done" =>
                   chats[i].result \in {"content", GetDemoResponse(chats[i].msg)}

\* The signUp calls made with the email of call i, compared as the code
\* compares emails.
SameEmailCalls(i) ==
    {j \in 1..Len(signUps) :
        ToLowerCase(signUps[j].email) = ToLowerCase(signUps[i].email)}

\* No two entries of the user list have the same email compared
\* case-insensitively, and no two have the same id.
UsersDistinct ==
    \A a, b \in 1..Len(mockUsers) :
        a # b => /\ ToLowerCase(mockUsers[a].email) #
                        ToLowerCase(mockUsers[b].email)
                 /\ mockUsers[a].id # mockUsers[b].id

\* C21 as stated: the entries of the user list are distinct, and of several
\* signUp calls with the same email that have all returned, exactly one
\* succeeded and the others returned 'User already exists with this email'.
C21_ExactlyOneSucceeds ==
    /\ UsersDistinct
    /\ \A i \in 1..Len(signUps) :
          (/\ Cardinality(SameEmailCalls(i)) >= 2
           /\ \A j \in SameEmailCalls(i) : signUps[j].stage = "done")
          => /\ Cardinality({j \in SameEmailCalls(i) :
                               signUps[j].result = "success"}) = 1
             /\ \A j \in SameEmailCalls(i) :
                   signUps[j].result \in {"success", "exists"}

\* C21: the entries of the user list are distinct by email (compared
\* case-insensitively) and by id; of the signUp calls with the same email at
\* most one adds an entry, none when the email was registered before the
\* calls, and only that call can succeed (it is rejected when the token
\* cannot be stored); every other call that has returned, returned 'User
\* already exists with this email'.
C21_AtMostOneRegisters ==
    /\ UsersDistinct
    /\ \A i \in 1..Len(signUps) :
          LET same == SameEmailCalls(i)
              adders == {j \in same : signUps[j].id # "none"}
          IN  /\ Cardinality(adders) <= 1
              /\ FindUser(InitialMockUsers, signUps[i].email) # {}
                    => adders = {}
              /\ \A j \in same :
                    /\ signUps[j].result \in {"success", "rejected"}
                          => j \in adders
                    /\ (signUps[j].stage = "done" /\ j \notin adders)
                          => signUps[j].result = "exists"
              /\ (FindUser(InitialMockUsers, signUps[i].email) = {}
                    /\ \E j \in same : signUps[j].stage # "delay")
                    => Cardinality(adders) = 1

\* Two signUp calls with the same new email, typed in different case, are in
\* progress together: the first has added the user and awaits the storage of
\* its token, the second has been told that the user exists.
C21_Witness ==
    /\ Len(signUps) >= 2
    /\ signUps[1].email = "Ann@X.com" /\ signUps[2].email = "ann@x.com"
    /\ signUps[1].stage = "store" /\ signUps[2].result = "exists"
    /\ Len(mockUsers) = 4

\* A method that changed the list goes on after its save: the step in which
\* it notifies the listeners.
NotifiesAfterSave == \E ok \in BOOLEAN, beh \in Behaviours : SaveDone(ok, beh)

\* How many times listener l was invoked in the last run of notifyListeners.
Invocations(l, run) == Cardinality({k \in 1..Len(run.by) : run.by[k] = l})

\* C22: a listener whose unsubscribe function has been called is not
\* subscribed and is not invoked by a notification; every notification that
\* follows an add, a markAllAsRead, a clearAllNotifications or a successful
\* markAsRead invokes every listener subscribed at that moment exactly once,
\* with a copy of the list.
C22_SubscribedNotifiedOnce ==
    /\ [][\A l \in Listeners :
            Unsubscribe(l) => \A k \in 1..Len(listeners') : listeners'[k] # l
         ]_vars
    /\ [][NotifiesAfterSave =>
            \A l \in Listeners :
                IF \E k \in 1..Len(listeners) : listeners[k] = l
                THEN /\ Invocations(l, notified') = 1
                     /\ notified'.list = notifications
                ELSE Invocations(l, notified') = 0
         ]_vars

\* The counter leaves its maximum only by an open event, which sets it to 0.
CounterLeavesMaxOnlyOnOpen ==
    [][(reconnectAttempts = maxReconnectAttempts
          /\ reconnectAttempts' # maxReconnectAttempts)
         => /\ reconnectAttempts' = 0
            /\ \E s \in socks : OnOpen(s)]_vars

\* A close event that finds the counter at its maximum schedules no
\* reconnect.
CloseAtMaxSchedulesNothing ==
    [][\A s \in socks, closeThrows \in BOOLEAN :
          (OnClose(s, closeThrows) /\ reconnectAttempts = maxReconnectAttempts)
          => /\ wsTimers' = wsTimers
             /\ reconnectAttempts' = maxReconnectAttempts]_vars

\* C23 as stated: every disconnectWebSocket() call leaves the counter at 5
\* and the delay as it was; the counter leaves 5 only by an open event, and
\* until then no close schedules a reconnect.
C23_DisconnectLeavesMax ==
    /\ [][DisconnectWebSocket =>
            /\ reconnectAttempts' = maxReconnectAttempts
            /\ reconnectDelay' = reconnectDelay]_vars
    /\ CounterLeavesMaxOnlyOnOpen
    /\ CloseAtMaxSchedulesNothing

\* C23: disconnectWebSocket() called while the client holds a socket leaves
\* the counter at its maximum (5) and the delay as it was (called without a
\* socket it changes neither); the counter leaves the maximum only by an open
\* event, which sets it to 0, and until then a close event, also that of a
\* socket made by a later connectWebSocket call, schedules no reconnect.
C23_DisconnectWithSocketLeavesMax ==
    /\ [][DisconnectWebSocket =>
            /\ reconnectAttempts' = IF ws # 0 THEN maxReconnectAttempts
                                    ELSE reconnectAttempts
            /\ reconnectDelay' = reconnectDelay]_vars
    /\ CounterLeavesMaxOnlyOnOpen
    /\ CloseAtMaxSchedulesNothing

\* The application has connected, disconnected and connected again; the
\* socket of the second call has closed without an open event and no
\* reconnect is scheduled: the counter is still at the maximum.
C23_Witness ==
    /\ userConnects = 2 /\ ~disconnected /\ created = 2 /\ socks = {}
    /\ reconnectAttempts = maxReconnectAttempts
    /\ wsTimers = EmptyBag

\* The step in which a fetch of the poller has succeeded and the data
\* callback throws on its result; `errorThrows`: the error callback, if it
\* is invoked, throws too.
DataCallbackThrows(errorThrows) ==
    \E r \in reqs :
        /\ r.owner = "poll"
        /\ ReqJson(r, TRUE)
        /\ PollAfterFetch(Return("value"), TRUE, errorThrows)

\* C24: an exception of the data callback is caught and the error callback,
\* if one was supplied, is invoked once; unless stop was called or the error
\* callback throws, the next poll is scheduled one interval later.  Whenever
\* a fetch of a poller that was not stopped settles and no poll is scheduled,
\* the error callback was invoked in that step and threw.
C24_DataThrowKeepsPolling ==
    /\ [][\A errorThrows \in BOOLEAN : DataCallbackThrows(errorThrows) =>
            /\ dataCalls' = dataCalls + 1
            /\ errorCalls' = errorCalls + (IF hasOnError THEN 1 ELSE 0)
            /\ (isPolling /\ ~(hasOnError /\ errorThrows))
                  => (NextPollAt \in pollTimers' /\ ~pollDied')]_vars
    /\ [][\A r \in reqs :
            (/\ r.owner = "poll" /\ r \notin reqs'
             /\ \A q \in reqs' : q.id # r.id
             /\ isPolling /\ NextPollAt \notin pollTimers')
            => (/\ pollDied' /\ hasOnError
                /\ errorCalls' = errorCalls + 1)]_vars
    /\ [](pollDied => (hasOnError /\ errorCalls >= 1))

\* Every fetch so far has succeeded and every time the data callback threw:
\* the error callback was invoked each time and the third poll is scheduled.
C24_Witness ==
    /\ dataCalls = 2 /\ errorCalls = 2 /\ pollIssued = 2
    /\ isPolling /\ ~pollDied /\ pollTimers # {} /\ reqs = {}

\* The sessions of a text handed to storage.
TextSessions(text) == {text.sessions[k] : k \in 1..Len(text.sessions)}

\* Every session of the history, of a write in progress and of the item in
\* storage has been ended.
OnlyEndedSessionsFiled ==
    /\ \A i \in 1..Len(sessions) : sessions[i].status = "ended"
    /\ \A i \in 1..Len(writes) :
          \A x \in TextSessions(writes[i]) : x.status = "ended"
    /\ stored # <<>> => \A x \in TextSessions(stored[1]) : x.status = "ended"

\* C25: startSession, also while a session is current, makes a new active
\* session without messages and sensor events the current one and leaves the
\* history, the writes in progress and the storage as they are; the history
\* changes only by endSession and by a load, and it, the writes and the
\* storage hold ended sessions only.
C25_StartReplacesCurrent ==
    /\ [][StartSession =>
            /\ currentSession' =
                  <<[id |-> clock, startTime |-> clock, endTime |-> NoTime,
                     status |-> "active", messages |-> <<>>,
                     sensorEvents |-> <<>>]>>
            /\ UNCHANGED <<sessions, writes, stored>>]_vars
    /\ [][sessions' # sessions =>
            (EndSession \/ \E ok \in BOOLEAN : LoadRead(ok))]_vars
    /\ []OnlyEndedSessionsFiled

\* startSession was called while a session that holds an item was current:
\* the new session is active and empty, and the replaced one is neither in
\* the history nor on its way to storage.
C25_Witness ==
    /\ starts = 2 /\ itemsAdded >= 1
    /\ currentSession # <<>>
    /\ currentSession[1].status = "active"
    /\ currentSession[1].messages = <<>>
    /\ currentSession[1].sensorEvents = <<>>
    /\ sessions = <<>> /\ writes = <<>> /\ stored = <<>>

\* Session d is session c with `item` appended to its messages (which = 1)
\* or to its sensor events (which = 2) and nothing else changed.
Appended(c, d, item, which) ==
    LET old == IF which = 1 THEN c.messages ELSE c.sensorEvents
        new == IF which = 1 THEN d.messages ELSE d.sensorEvents
    IN  /\ Len(new) = Len(old) + 1
        /\ SubSeq(new, 1, Len(old)) = old
        /\ new[Len(new)] = item
        /\ which = 1 => d.sensorEvents = c.sensorEvents
        /\ which = 2 => d.messages = c.messages
        /\ d.status = c.status /\ d.id = c.id
        /\ d.startTime = c.startTime /\ d.endTime = c.endTime

\* C26: without a current session addMessage and addSensorEvent change
\* nothing; with one, active or paused, the item becomes the last of its list,
\* the earlier items keep their order, and the other list, the status and the
\* rest of the session, the history and the storage are as before.
C26_AddAppends ==
    /\ [][\A m \in Messages : AddMessage(m) =>
            /\ UNCHANGED <<sessions, writes, stored>>
            /\ IF currentSession = <<>> THEN currentSession' = <<>>
               ELSE /\ currentSession' # <<>>
                    /\ Appended(currentSession[1], currentSession'[1],
                                [content |-> m, timestamp |-> clock], 1)]_vars
    /\ [][\A e \in SensorEvents : AddSensorEvent(e) =>
            /\ UNCHANGED <<sessions, writes, stored>>
            /\ IF currentSession = <<>> THEN currentSession' = <<>>
               ELSE /\ currentSession' # <<>>
                    /\ Appended(currentSession[1], currentSession'[1],
                                [id |-> e, timestamp |-> clock], 2)]_vars

\* A paused session holds two messages in the order in which they were
\* added, the second one added later than the session was started.
C26_Witness ==
    /\ currentSession # <<>>
    /\ currentSession[1].status = "paused"
    /\ Len(currentSession[1].messages) = 2
    /\ currentSession[1].messages[1].content = "m2"
    /\ currentSession[1].messages[2].content = "m1"
    /\ currentSession[1].messages[2].timestamp > currentSession[1].startTime

\* The values loadPersistedState makes of a text of '@app_state': auth, the
\* history, settings and simulatorEnabled.
Restored(text) ==
    <<ReviveAuth(text.auth),
      [k \in 1..Len(text.sessions) |-> ReviveSession(text.sessions[k])],
      ReviveSettings(text.settings),
      ReviveSimulatorEnabled(text.simulatorEnabled)>>

\* The texts that are in storage or on their way to it.
AppStateTexts ==
    {writes[k] : k \in 1..Len(writes)} \cup {stored[k] : k \in 1..Len(stored)}

\* A step in which persistState is called once.
Persists == writes' # writes /\ Len(writes') = Len(writes) + 1

\* C27: the text persistState hands to storage is the last of the pending
\* writes and reviving it gives auth, the history, settings and
\* simulatorEnabled as they are at the persist; it does not hold the current
\* session.  A write that succeeds puts the text in storage as it is, one that
\* fails leaves storage as it was.  A load that reads an item installs the
\* values revived from it and leaves currentSession and connectedDevice as
\* they were; a load that reads nothing or fails leaves all six as they were.
\* Every text holds auth, sessions, settings and simulatorEnabled only, and
\* startSession, pauseSession, addMessage and addSensorEvent leave the
\* pending writes and the storage as they were.
C27_PersistThenLoadRestores ==
    /\ [][Persists =>
            /\ SubSeq(writes', 1, Len(writes)) = writes
            /\ Restored(writes'[Len(writes')]) =
                   <<auth', sessions', settings', simulatorEnabled'>>
            /\ currentSession' # <<>> =>
                   StringifySession(currentSession'[1])
                       \notin TextSessions(writes'[Len(writes')])]_vars
    /\ [][\A ok \in BOOLEAN : StorageWrite(ok) =>
            /\ stored' = IF ok THEN <<Head(writes)>> ELSE stored
            /\ UNCHANGED <<auth, sessions, settings, simulatorEnabled,
                           currentSession, connectedDevice>>]_vars
    /\ [][\A ok \in BOOLEAN : LoadRead(ok) =>
            /\ UNCHANGED <<currentSession, connectedDevice, writes, stored>>
            /\ IF ok /\ stored # <<>>
               THEN <<auth', sessions', settings', simulatorEnabled'>> =
                        Restored(stored[1])
               ELSE UNCHANGED <<auth, sessions, settings,
                                simulatorEnabled>>]_vars
    /\ [](\A text \in AppStateTexts :
            DOMAIN text = {"auth", "sessions", "settings", "simulatorEnabled"})
    /\ [][(\/ StartSession
           \/ PauseSession
           \/ \E m \in Messages : AddMessage(m)
           \/ \E e \in SensorEvents : AddSensorEvent(e))
              => UNCHANGED <<writes, stored>>]_vars

\* A device was connected, which persisted the state with the history of one
\* session; the session started and ended after that was filed in memory
\* only, and a load then brought the history back to the one persisted, its
\* message with a time again, and left the device connected.
C27_Witness ==
    /\ starts = MaxStarts
    /\ itemsAdded = MaxItems
    /\ sets = MaxSets
    /\ currentSession = <<>>
    /\ connectedDevice = <<"device-1">>
    /\ writes = <<>>
    /\ ~loading
    /\ stored # <<>>
    /\ <<auth, sessions, settings, simulatorEnabled>> = Restored(stored[1])
    /\ Len(sessions) = 1
    /\ sessions[1].endTime = 0
    /\ Len(sessions[1].messages) = 1
    /\ sessions[1].messages[1].timestamp = 0
    /\ auth.isAuthenticated
    /\ auth.user[1].createdAt = 0

====
